---- MODULE Spec2Model ----
(***************************************************************************)
(* Model of the deterministic reconciliation engine of MasterContractorOS  *)
(* (src/src/lib/engine/*.ts).  The engine is a stateless library of pure   *)
(* functions; the state machine below is a caller that is idle, calls one  *)
(* engine function on inputs drawn from bounded sets, observes the value   *)
(* it returns, and goes back to idle.  The rows of a project (its quotes   *)
(* and its gaps) are the state the caller keeps between calls.             *)
(*                                                                         *)
(* Representation of values                                                *)
(*   money      integers counting 1/UnitsPerCent of a cent, so that the    *)
(*              0.01 rounding tolerance of the code is UnitsPerCent units  *)
(*              and two different amounts can still be "exactly" equal     *)
(*   optional   a field that may be null/undefined is a sequence of        *)
(*              length at most one: None = << >>, Some(v) = << v >>        *)
(*   text       a sequence of one-character strings                        *)
(*   percent    an exact fraction [num, den] in lowest terms, den > 0      *)
(*              (the code computes in IEEE doubles; the model is exact)    *)
(*   message    a tuple of the template's name and its arguments           *)
(***************************************************************************)
EXTENDS Integers, Sequences, FiniteSets, TLC

VARIABLES op, args, ret, project

vars == <<op, args, ret, project>>

(***************************************************************************)
(* Optional values, JavaScript's `x || 0` and `x || ''`.                   *)
(***************************************************************************)
None == << >>

Some(v) == << v >>

IsNone(x) == x = << >>

\* x || 0 : null, undefined and 0 all give 0
OrZero(x) == IF x = << >> THEN 0 ELSE x[1]

\* x || '' : null, undefined and '' all give ''
OrEmpty(x) == IF x = << >> THEN << >> ELSE x[1]

Abs(x) == IF x < 0 THEN -x ELSE x

MathMax(a, b) == IF a >= b THEN a ELSE b

(***************************************************************************)
(* Exact fractions for percentages.                                        *)
(***************************************************************************)
RECURSIVE Gcd(_, _)
Gcd(a, b) == IF b = 0 THEN a ELSE Gcd(b, a % b)

Frac(n, d) ==
  LET s == IF d < 0 THEN -1 ELSE 1
      g == Gcd(Abs(n), Abs(d))
  IN  [num |-> (s * n) \div g, den |-> (s * d) \div g]

Whole(k) == [num |-> k, den |-> 1]

FracLt(x, y) == x.num * y.den < y.num * x.den

FracLe(x, y) == x.num * y.den <= y.num * x.den

FracAbs(x) == [num |-> Abs(x.num), den |-> x.den]

\* Math.min
FracMin_larger(x, y) == IF FracLt(y, x) THEN x ELSE y

FracMin(x, y) == IF FracLt(y, x) THEN y ELSE x

\* Number.prototype.toFixed(1): the number of tenths nearest to x, the
\* larger one on a tie
ToFixed1(x) ==
  LET m == (20 * Abs(x.num) + x.den) \div (2 * x.den)
  IN  IF x.num < 0 THEN -m ELSE m

\* Number.prototype.toFixed(0)
ToFixed0(x) ==
  LET m == (2 * Abs(x.num) + x.den) \div (2 * x.den)
  IN  IF x.num < 0 THEN -m ELSE m

(***************************************************************************)
(* Text.                                                                   *)
(***************************************************************************)
UpperLetters ==
  <<"A", "B", "C", "D", "E", "F", "G", "H", "I", "J", "K", "L", "M",
    "N", "O", "P", "Q", "R", "S", "T", "U", "V", "W", "X", "Y", "Z">>

LowerLetters ==
  <<"a", "b", "c", "d", "e", "f", "g", "h", "i", "j", "k", "l", "m",
    "n", "o", "p", "q", "r", "s", "t", "u", "v", "w", "x", "y", "z">>

LetterIndex(letters, c) == CHOOSE i \in 1..26 : letters[i] = c

LowerChar(c) ==
  IF \E i \in 1..26 : UpperLetters[i] = c
  THEN LowerLetters[LetterIndex(UpperLetters, c)] ELSE c

UpperChar(c) ==
  IF \E i \in 1..26 : LowerLetters[i] = c
  THEN UpperLetters[LetterIndex(LowerLetters, c)] ELSE c

ToLowerCase(t) == [i \in 1..Len(t) |-> LowerChar(t[i])]

ToUpperCase(t) == [i \in 1..Len(t) |-> UpperChar(t[i])]

\* String.prototype.includes
Includes(hay, needle) ==
  \E i \in 1..(Len(hay) - Len(needle) + 1) :
    SubSeq(hay, i, i + Len(needle) - 1) = needle

\* the element of a set of one element: TheOne({f(x) : x \in {e}}) is f(e)
\* with e computed once, as a const of the source is
TheOne(S) == CHOOSE x \in S : TRUE

(***************************************************************************)
(* Safety constitution constants (types/mastercontractor.ts).              *)
(***************************************************************************)
SOFT_MATCH_VARIANCE_PERCENT == 8

(***************************************************************************)
(* Bounds of the model.                                                    *)
(***************************************************************************)
\* money resolution: units per cent
UnitsPerCent == 2

\* longest parent raw_text drawn
MaxTextLen == 2

\* most child quotes passed to validateWrapperTruth
MaxChildren == 2

\* most wrapper lines passed to validateWrapperTruth
MaxWrapperLines == 2

\* most quotes of a project passed to the summary engine
MaxQuotes == 3

Cents(n) == n * UnitsPerCent

Dollars(n) == Cents(100 * n)

\* an amount of money as a number of dollars
InDollars(amount) == Frac(amount, Dollars(1))

(***************************************************************************)
(* Dedupe engine (src/src/lib/engine/dedupe.ts).                           *)
(***************************************************************************)
\* Math.abs(amount1 - amount2) < 0.01
isExactMatch(amount1, amount2) == Abs(amount1 - amount2) < Cents(1)

isSoftMatch(amount1, amount2) ==
  IF amount1 = 0 \/ amount2 = 0 THEN FALSE
  ELSE LET variance == Frac(Abs(amount1 - amount2) * 100, MathMax(amount1, amount2))
       IN  FracLe(variance, Whole(SOFT_MATCH_VARIANCE_PERCENT))
           /\ FracLt(Whole(0), variance)

getVariancePercent(amount1, amount2) ==
  IF amount1 = 0 /\ amount2 = 0 THEN Whole(0)
  ELSE IF amount1 = 0 \/ amount2 = 0 THEN Whole(100)
  ELSE Frac(Abs(amount1 - amount2) * 100, MathMax(amount1, amount2))

\* the evidence test of hasTextEvidence on one extracted string
mentions(combinedParent, childString) ==
  childString # << >> /\ Includes(combinedParent, childString)

\* a link by internal identifier
idLinked(parentQuote, childQuote) ==
  childQuote.parent_quote_id = Some(parentQuote.id)

hasTextEvidence_orIdLink(parentQuote, childQuote) ==
  LET combinedParent == ToLowerCase(OrEmpty(parentQuote.raw_text)) \o <<" ">>
                          \o ToLowerCase(OrEmpty(parentQuote.notes))
      found == mentions(combinedParent, ToLowerCase(childQuote.vendor_name))
               \/ mentions(combinedParent, ToLowerCase(OrEmpty(childQuote.quote_number)))
               \/ idLinked(parentQuote, childQuote)
  IN  [hasEvidence |-> found, details |-> << >>]

hasTextEvidence(parentQuote, childQuote) ==
  LET parentText     == ToLowerCase(OrEmpty(parentQuote.raw_text))
      parentNotes    == ToLowerCase(OrEmpty(parentQuote.notes))
      combinedParent == parentText \o <<" ">> \o parentNotes
      childVendor    == ToLowerCase(childQuote.vendor_name)
      childQuoteNum  == ToLowerCase(OrEmpty(childQuote.quote_number))
      vendorFound    == IF mentions(combinedParent, childVendor)
                        THEN << <<"Vendor found in parent", childQuote.vendor_name>> >>
                        ELSE << >>
      quoteNumFound  == IF mentions(combinedParent, childQuoteNum)
                        THEN << <<"Quote# found in parent", childQuote.quote_number[1]>> >>
                        ELSE << >>
      evidenceFound  == vendorFound \o quoteNumFound
  IN  [hasEvidence |-> Len(evidenceFound) > 0, details |-> evidenceFound]

checkTaxTrap_anyDifference(parentLineAmount, childQuote) ==
  LET subtotal        == OrZero(childQuote.subtotal)
      total           == OrZero(childQuote.total)
      matchesSubtotal == isExactMatch(parentLineAmount, subtotal)
      matchesTotal    == isExactMatch(parentLineAmount, total)
  IN  [isTaxTrap |-> matchesSubtotal /\ ~matchesTotal,
       matchesSubtotal |-> matchesSubtotal, matchesTotal |-> matchesTotal]

checkTaxTrap(parentLineAmount, childQuote) ==
  LET subtotal        == OrZero(childQuote.subtotal)
      total           == OrZero(childQuote.total)
      matchesSubtotal == isExactMatch(parentLineAmount, subtotal)
      matchesTotal    == isExactMatch(parentLineAmount, total)
      isTaxTrap       == matchesSubtotal /\ ~matchesTotal /\ total > subtotal
  IN  [isTaxTrap |-> isTaxTrap, matchesSubtotal |-> matchesSubtotal,
       matchesTotal |-> matchesTotal]

compareLineToQuote(parentLine, parentQuote, childQuote) ==
  LET lineAmount    == OrZero(parentLine.amount)
      childTotal    == OrZero(childQuote.total)
      childSubtotal == OrZero(childQuote.subtotal)
      evidence      == hasTextEvidence(parentQuote, childQuote)
      taxTrap       == checkTaxTrap(lineAmount, childQuote)
      varianceFromTotal    == getVariancePercent(lineAmount, childTotal)
      varianceFromSubtotal == getVariancePercent(lineAmount, childSubtotal)
      minVariance   == FracMin(varianceFromTotal, varianceFromSubtotal)
  IN  IF taxTrap.matchesTotal \/ taxTrap.matchesSubtotal
      THEN [type |-> "EXACT",
            confidence |-> IF evidence.hasEvidence THEN 95 ELSE 50,
            hasTextEvidence |-> evidence.hasEvidence,
            evidenceDetails |->
              IF taxTrap.isTaxTrap
              THEN <<"TAX TRAP: Line matches subtotal", childSubtotal, childTotal,
                     evidence.details>>
              ELSE evidence.details,
            variancePercent |-> Whole(0)]
      ELSE IF FracLe(minVariance, Whole(SOFT_MATCH_VARIANCE_PERCENT))
      THEN [type |-> "SOFT",
            confidence |-> IF evidence.hasEvidence THEN 75 ELSE 25,
            hasTextEvidence |-> evidence.hasEvidence,
            evidenceDetails |-> evidence.details,
            variancePercent |-> minVariance]
      ELSE [type |-> "NO_MATCH",
            confidence |-> 0,
            hasTextEvidence |-> FALSE,
            variancePercent |-> minVariance]

\* the gate of runDedupeCheck: `if (match.hasTextEvidence)`
autoLinkAllowed_byConfidence(match) == match.confidence >= 50

autoLinkAllowed(match) == match.hasTextEvidence

\* decision_type of the Decision runDedupeCheck queues
dedupeDecisionType_alwaysDuplicate(match) == "POTENTIAL_DUPLICATE"

dedupeDecisionType(match) ==
  IF match.type = "EXACT" THEN "POTENTIAL_DUPLICATE" ELSE "SOFT_MATCH"

runDedupeCheck(parentLine, parentQuote, childQuote) ==
  LET match == compareLineToQuote(parentLine, parentQuote, childQuote)
  IN  IF match.type = "NO_MATCH"
      THEN [status |-> "NO_MATCH", match |-> match, sourceLineId |-> parentLine.id]
      ELSE IF autoLinkAllowed(match)
      THEN [status |-> "AUTO_LINKED", match |-> match,
            sourceLineId |-> parentLine.id, targetLineId |-> childQuote.id]
      ELSE [status |-> "POTENTIAL_DUPLICATE", match |-> match,
            sourceLineId |-> parentLine.id,
            decision |->
              [decision_type |-> dedupeDecisionType(match),
               title |-> <<"Possible duplicate", parentLine.description>>,
               description |->
                 IF match.type = "EXACT"
                 THEN <<"Exact amount match but no vendor/quote# evidence found",
                        parentLine.amount>>
                 ELSE <<"Soft match without text evidence",
                        ToFixed1(match.variancePercent)>>,
               line_id_a |-> parentLine.id,
               quote_id_b |-> childQuote.id,
               evidence |-> [matchType |-> match.type,
                             variance |-> match.variancePercent,
                             parentAmount |-> parentLine.amount,
                             childTotal |-> childQuote.total,
                             childSubtotal |-> childQuote.subtotal]]]

(***************************************************************************)
(* Safety engine (src/src/lib/engine/safety.ts).                           *)
(***************************************************************************)
auditWrapperForTaxTrap(wrapperTotal, childrenSum) ==
  LET variance        == wrapperTotal - childrenSum
      variancePercent == IF wrapperTotal > 0
                         THEN Frac(variance * 100, wrapperTotal)
                         ELSE Whole(0)
  IN  IF FracLt(FracAbs(variancePercent), Frac(1, 2))
      THEN [status |-> "OK", variance |-> variance,
            variancePercent |-> variancePercent,
            details |-> <<"Wrapper total matches child sum exactly.">>,
            recommendation |-> <<"No action needed.">>]
      ELSE IF FracLe(Whole(4), variancePercent) /\ FracLe(variancePercent, Whole(12))
      THEN [status |-> "TAX_TRAP_DETECTED", variance |-> variance,
            variancePercent |-> variancePercent,
            details |-> <<"Wrapper total is higher than child sum",
                          ToFixed1(variancePercent)>>,
            recommendation |-> <<"Verify children are linked to SUBTOTAL, not TOTAL",
                                 ToFixed0(InDollars(childrenSum)),
                                 ToFixed0(InDollars(wrapperTotal)),
                                 ToFixed0(InDollars(variance))>>]
      ELSE IF FracLt(Whole(12), variancePercent) \/ FracLt(variancePercent, Whole(-1))
      THEN [status |-> "VARIANCE_WARNING", variance |-> variance,
            variancePercent |-> variancePercent,
            details |-> <<"Unusual variance", ToFixed1(variancePercent),
                          ToFixed0(InDollars(variance))>>,
            recommendation |->
              <<"Review line items for missing entries or double-counting.">>]
      ELSE [status |-> "OK", variance |-> variance,
            variancePercent |-> variancePercent,
            details |-> <<"Minor variance is within tolerance",
                          ToFixed1(variancePercent)>>,
            recommendation |-> <<"No action needed.">>]

\* quotes.reduce((sum, q) => sum + (q.total || 0), 0)
RECURSIVE sumTotals(_)
sumTotals(quotes) ==
  IF quotes = << >> THEN 0
  ELSE sumTotals(SubSeq(quotes, 1, Len(quotes) - 1)) + OrZero(quotes[Len(quotes)].total)

\* lines.reduce((sum, l) => sum + (l.amount || 0), 0)
RECURSIVE sumAmounts(_)
sumAmounts(lines) ==
  IF lines = << >> THEN 0
  ELSE sumAmounts(SubSeq(lines, 1, Len(lines) - 1)) + OrZero(lines[Len(lines)].amount)

\* what validateWrapperTruth pushes for the outcome of the tax audit
auditFindings_trapIsIssue(taxAudit) ==
  IF taxAudit.status \in {"TAX_TRAP_DETECTED", "VARIANCE_WARNING"}
  THEN [issues |-> <<taxAudit.details, taxAudit.recommendation>>, warnings |-> << >>]
  ELSE [issues |-> << >>, warnings |-> << >>]

auditFindings(taxAudit) ==
  IF taxAudit.status = "TAX_TRAP_DETECTED"
  THEN [issues |-> << >>, warnings |-> <<taxAudit.details, taxAudit.recommendation>>]
  ELSE IF taxAudit.status = "VARIANCE_WARNING"
  THEN [issues |-> <<taxAudit.details, taxAudit.recommendation>>, warnings |-> << >>]
  ELSE [issues |-> << >>, warnings |-> << >>]

\* the verifiedCost validateWrapperTruth returns under AUTHORITATIVE
authoritativeCost_childSum(wrapperTotal, childSum) == childSum

authoritativeCost(wrapperTotal, childSum) == wrapperTotal

validateWrapperTruth(wrapper, childQuotes, wrapperLines) ==
  LET notWrapper == IF ~wrapper.is_wrapper
                    THEN << <<"Quote is not marked as wrapper but has child quotes.">> >>
                    ELSE << >>
      noRule     == IF wrapper.reconciliation_rule = "null"
                    THEN << <<"Wrapper missing reconciliation_rule. Cannot determine cost treatment.">> >>
                    ELSE << >>
      childSum   == sumTotals(childQuotes)
  IN  IF wrapper.reconciliation_rule = "AUTHORITATIVE"
      THEN LET wrapperTotal == OrZero(wrapper.total)
               taxAudit     == auditWrapperForTaxTrap(wrapperTotal, childSum)
               found        == auditFindings(taxAudit)
               lineSum      == sumAmounts(wrapperLines)
               lineWarning  == IF Abs(lineSum - wrapperTotal) > Dollars(1)
                               THEN << <<"Wrapper line items sum differs from total",
                                         lineSum, wrapperTotal>> >>
                               ELSE << >>
               issues       == notWrapper \o noRule \o found.issues
               warnings     == found.warnings \o lineWarning
           IN  [isValid |-> Len(issues) = 0, issues |-> issues,
                warnings |-> warnings,
                verifiedCost |-> authoritativeCost(wrapperTotal, childSum)]
      ELSE IF wrapper.reconciliation_rule = "ADDITIVE"
      THEN [isValid |-> Len(notWrapper \o noRule) = 0, issues |-> notWrapper \o noRule,
            warnings |-> << >>, verifiedCost |-> childSum]
      ELSE [isValid |-> Len(notWrapper \o noRule) = 0, issues |-> notWrapper \o noRule,
            warnings |-> << >>, verifiedCost |-> 0]

evaluateSoftMatchSafety_smallVarianceOk(variancePercent, hasEvidence, sourceDesc, targetDesc) ==
  IF ~hasEvidence /\ ~FracLt(FracAbs(variancePercent), Whole(1))
  THEN [allowed |-> FALSE,
        reason |-> <<"Soft match rejected: No text evidence",
                     ToFixed1(variancePercent), sourceDesc, targetDesc>>,
        requiresDecision |-> TRUE,
        decision |-> [decision_type |-> "SOFT_MATCH",
                      title |-> <<"Review", sourceDesc>>,
                      description |-> <<"variance match without vendor/quote evidence",
                                        ToFixed1(variancePercent)>>]]
  ELSE [allowed |-> TRUE,
        reason |-> <<"Soft match approved with text evidence", ToFixed1(variancePercent)>>,
        requiresDecision |-> FALSE]

evaluateSoftMatchSafety(variancePercent, hasEvidence, sourceDesc, targetDesc) ==
  IF ~hasEvidence
  THEN [allowed |-> FALSE,
        reason |-> <<"Soft match rejected: No text evidence",
                     ToFixed1(variancePercent), sourceDesc, targetDesc>>,
        requiresDecision |-> TRUE,
        decision |-> [decision_type |-> "SOFT_MATCH",
                      title |-> <<"Review", sourceDesc>>,
                      description |-> <<"variance match without vendor/quote evidence",
                                        ToFixed1(variancePercent)>>]]
  ELSE [allowed |-> TRUE,
        reason |-> <<"Soft match approved with text evidence", ToFixed1(variancePercent)>>,
        requiresDecision |-> FALSE]

\* the tests `variancePercent < 1` and `variancePercent < 5`
varianceBelow_above(variancePercent, limit) == FracLt(Whole(limit), variancePercent)

varianceBelow(variancePercent, limit) == FracLt(variancePercent, Whole(limit))

calculateConfidence(params) ==
  IF /\ params.sourceType = "QUOTE"
     /\ params.hasTextEvidence
     /\ varianceBelow(params.variancePercent, 1)
  THEN "HIGH"
  ELSE IF params.sourceType = "QUOTE" /\ varianceBelow(params.variancePercent, 5)
  THEN "HIGH"
  ELSE IF \/ params.sourceType = "QUOTE"
          \/ (params.sourceType = "RATEBOOK" /\ params.hasRanges)
  THEN "MEDIUM"
  ELSE "LOW"

(***************************************************************************)
(* Project summary engine (src/src/lib/engine/summary.ts).                 *)
(***************************************************************************)
\* positions of the quotes the first filter of calculateVerifiedCost keeps
authoritativeWrappers(quotes) ==
  {i \in 1..Len(quotes) : /\ quotes[i].is_wrapper
                          /\ quotes[i].reconciliation_rule = "AUTHORITATIVE"
                          /\ quotes[i].status = "VERIFIED"}

\* the ids the first loop adds to processedWrapperChildren
processedWrapperChildren(quotes) ==
  {quotes[c].id : c \in {c \in 1..Len(quotes) :
                           \E w \in authoritativeWrappers(quotes) :
                             quotes[c].parent_quote_id = Some(quotes[w].id)}}

\* the second loop's test of one quote
countedAsAdditive_wrappersToo(quotes, i) ==
  /\ quotes[i].status = "VERIFIED"
  /\ quotes[i].id \notin processedWrapperChildren(quotes)
  /\ quotes[i].reconciliation_rule = "ADDITIVE"

countedAsAdditive(quotes, i) ==
  /\ quotes[i].status = "VERIFIED"
  /\ ~quotes[i].is_wrapper
  /\ quotes[i].id \notin processedWrapperChildren(quotes)
  /\ quotes[i].reconciliation_rule = "ADDITIVE"

\* the positions whose total an execution of `total += ...` adds, in the order
\* of execution: the first loop over the wrappers, then the second loop
additionsOf(quotes) ==
  SelectSeq([i \in 1..Len(quotes) |-> i], LAMBDA i : i \in authoritativeWrappers(quotes))
    \o SelectSeq([i \in 1..Len(quotes) |-> i], LAMBDA i : countedAsAdditive(quotes, i))

RECURSIVE sumAdded(_, _)
sumAdded(quotes, added) ==
  IF added = << >> THEN 0
  ELSE sumAdded(quotes, SubSeq(added, 1, Len(added) - 1))
         + OrZero(quotes[added[Len(added)]].total)

calculateVerifiedCost(quotes) == sumAdded(quotes, additionsOf(quotes))

\* the tests `gapCount < 2`, `decisionCount < 5`, ...
fewerThan_orEqual(count, limit) == count <= limit

fewerThan(count, limit) == count < limit

determineConfidence(verifiedCost, pendingCost, estimatedMid, gapCount, decisionCount) ==
  LET totalEstimate == verifiedCost + pendingCost + estimatedMid
  IN  IF totalEstimate = 0 THEN "LOW"
      ELSE LET verifiedPercent == Frac(verifiedCost * 100, totalEstimate)
           IN  IF /\ FracLt(Whole(80), verifiedPercent)
                  /\ fewerThan(gapCount, 2)
                  /\ fewerThan(decisionCount, 2)
               THEN "HIGH"
               ELSE IF /\ FracLt(Whole(50), verifiedPercent)
                       /\ fewerThan(gapCount, 5)
                       /\ fewerThan(decisionCount, 5)
               THEN "MEDIUM"
               ELSE "LOW"

\* reduce((sum, x) => sum + x, 0) over a list of numbers
RECURSIVE sumOf(_)
sumOf(numbers) ==
  IF numbers = << >> THEN 0
  ELSE sumOf(SubSeq(numbers, 1, Len(numbers) - 1)) + numbers[Len(numbers)]

isPending(q) == q.status = "PENDING" \/ q.status = "DECISION_REQUIRED"

calculatePendingCost(quotes) ==
  LET pending == SelectSeq(quotes, isPending)
  IN  sumOf([i \in 1..Len(pending) |-> OrZero(pending[i].total)])

\* gaps.filter(g => !g.resolved)
unresolvedGaps_all(gaps) == gaps

unresolvedGaps(gaps) == SelectSeq(gaps, LAMBDA g : ~g.resolved)

calculateEstimatedCost(gaps) ==
  LET unresolved == unresolvedGaps(gaps)
  IN  [low  |-> sumOf([i \in 1..Len(unresolved) |-> OrZero(unresolved[i].estimated_low)]),
       mid  |-> sumOf([i \in 1..Len(unresolved) |-> OrZero(unresolved[i].estimated_mid)]),
       high |-> sumOf([i \in 1..Len(unresolved) |-> OrZero(unresolved[i].estimated_high)])]

\* each const of the function is computed once
generateProjectSummary(quotes, gaps, decisions) ==
  TheOne({
    [verifiedCost |-> verifiedCost,
     pendingCost |-> pendingCost,
     estimatedCost |-> estimatedCost,
     gapCount |-> gapCount,
     decisionCount |-> decisionCount,
     confidence |-> determineConfidence(verifiedCost, pendingCost,
                                        estimatedCost.mid, gapCount, decisionCount)] :
    verifiedCost \in {calculateVerifiedCost(quotes)},
    pendingCost \in {calculatePendingCost(quotes)},
    estimatedCost \in {calculateEstimatedCost(gaps)},
    gapCount \in {Len(SelectSeq(gaps, LAMBDA g : ~g.resolved))},
    decisionCount \in {Len(SelectSeq(decisions, LAMBDA d : ~d.resolved))} })

(***************************************************************************)
(* Inputs of the dedupe engine.                                            *)
(***************************************************************************)
RECURSIVE TextsUpTo(_, _)
TextsUpTo(chars, n) ==
  IF n = 0 THEN {<< >>}
  ELSE LET shorter == TextsUpTo(chars, n - 1)
       IN  shorter \cup {Append(t, c) : t \in shorter, c \in chars}

Optional(S) == {None} \cup {Some(v) : v \in S}

RawTexts == Optional(TextsUpTo({"a", "A", "b"}, MaxTextLen))

NoteTexts == {None, Some(<<"B">>), Some(<<"b", "c">>)}

VendorNames == {<< >>, <<"A">>, <<"a", "b">>, <<"a", " ", "b">>}

QuoteNumbers == {None, Some(<< >>), Some(<<"C">>)}

\* the internal identifiers of one call: ids of the parent quote, the child
\* quote and the parent line, and the references between them
IdScenarios ==
  { [parent |-> "q1", child |-> "q2", childParent |-> Some("q1"),
     parentParent |-> None, line |-> "l1", lineQuote |-> "q1",
     parentProject |-> "p1", childProject |-> "p1"],
    [parent |-> "q3", child |-> "q4", childParent |-> None,
     parentParent |-> None, line |-> "l2", lineQuote |-> "q5",
     parentProject |-> "p1", childProject |-> "p2"] }

\* further identifier assignments a second run may use
IdAlternatives ==
  IdScenarios \cup
  { [parent |-> "q1", child |-> "q1", childParent |-> Some("q1"),
     parentParent |-> Some("q1"), line |-> "q1", lineQuote |-> "q1",
     parentProject |-> "q1", childProject |-> "q1"],
    [parent |-> "q2", child |-> "q1", childParent |-> Some("q9"),
     parentParent |-> Some("q1"), line |-> "l3", lineQuote |-> "q2",
     parentProject |-> "p2", childProject |-> "p1"] }

LineAmounts == {None, Some(0), Some(Cents(10000)), Some(-Cents(10000))}

ChildTotals ==
  {None, Some(Cents(10000) + 1), Some(Cents(10700)), Some(Cents(20000)),
   Some(-Cents(9500))}

ChildSubtotals == {None, Some(Cents(10000)), Some(Cents(9200)), Some(Cents(5000))}

ParentQuoteOf(ids, raw, notes) ==
  [id |-> ids.parent, project_id |-> ids.parentProject,
   vendor_name |-> <<"g", "c">>, quote_number |-> None,
   subtotal |-> None, total |-> None,
   is_wrapper |-> TRUE, reconciliation_rule |-> "AUTHORITATIVE",
   parent_quote_id |-> ids.parentParent, status |-> "VERIFIED",
   notes |-> notes, raw_text |-> raw]

ChildQuoteOf(ids, vendor, quoteNum, subtotal, total) ==
  [id |-> ids.child, project_id |-> ids.childProject,
   vendor_name |-> vendor, quote_number |-> quoteNum,
   subtotal |-> subtotal, total |-> total,
   is_wrapper |-> FALSE, reconciliation_rule |-> "ADDITIVE",
   parent_quote_id |-> ids.childParent, status |-> "PENDING",
   notes |-> None, raw_text |-> None]

LineOf(ids, amount) ==
  [id |-> ids.line, quote_id |-> ids.lineQuote,
   description |-> "Flooring install", amount |-> amount]

\* the same records with other internal identifiers
LineWithIds(line, ids) == [line EXCEPT !.id = ids.line, !.quote_id = ids.lineQuote]

ParentWithIds(quote, ids) ==
  [quote EXCEPT !.id = ids.parent, !.project_id = ids.parentProject,
                !.parent_quote_id = ids.parentParent]

ChildWithIds(quote, ids) ==
  [quote EXCEPT !.id = ids.child, !.project_id = ids.childProject,
                !.parent_quote_id = ids.childParent]

TrapAmounts == {0, Cents(10000), Cents(500000)}

TrapSubtotals ==
  Optional({0, Cents(10000), Cents(10000) + 1, Cents(10001), Cents(500000),
            Cents(535000)})

TrapTotals ==
  Optional({0, Cents(10000) - 1, Cents(9999), Cents(10700), Cents(500000),
            Cents(535000)})

(***************************************************************************)
(* The caller: idle, or holding the arguments and the value of one call.   *)
(***************************************************************************)
\* a new project has no quote and no gap
Init ==
  /\ op = "idle" /\ args = None /\ ret = None
  /\ project = [quotes |-> << >>, gaps |-> << >>]

Return ==
  /\ op # "idle" /\ op' = "idle" /\ args' = None /\ ret' = None
  /\ UNCHANGED project

CallHasTextEvidence ==
  /\ op = "idle"
  /\ UNCHANGED project
  /\ \E ids \in IdScenarios, raw \in RawTexts, notes \in NoteTexts,
        vendor \in VendorNames, quoteNum \in QuoteNumbers :
       LET parentQuote == ParentQuoteOf(ids, raw, notes)
           childQuote  == ChildQuoteOf(ids, vendor, quoteNum, None, None)
       IN  /\ op' = "hasTextEvidence"
           /\ args' = [parentQuote |-> parentQuote, childQuote |-> childQuote]
           /\ ret' = hasTextEvidence(parentQuote, childQuote)

CallCheckTaxTrap ==
  /\ op = "idle"
  /\ UNCHANGED project
  /\ \E ids \in IdScenarios, amount \in TrapAmounts,
        subtotal \in TrapSubtotals, total \in TrapTotals :
       LET childQuote == ChildQuoteOf(ids, <<"A">>, None, subtotal, total)
       IN  /\ op' = "checkTaxTrap"
           /\ args' = [parentLineAmount |-> amount, childQuote |-> childQuote]
           /\ ret' = checkTaxTrap(amount, childQuote)

CallRunDedupeCheck ==
  /\ op = "idle"
  /\ UNCHANGED project
  /\ \E ids \in IdScenarios, raw \in RawTexts, notes \in NoteTexts,
        vendor \in VendorNames, quoteNum \in QuoteNumbers,
        amount \in LineAmounts, subtotal \in ChildSubtotals, total \in ChildTotals :
       LET parentLine  == LineOf(ids, amount)
           parentQuote == ParentQuoteOf(ids, raw, notes)
           childQuote  == ChildQuoteOf(ids, vendor, quoteNum, subtotal, total)
       IN  /\ op' = "runDedupeCheck"
           /\ args' = [parentLine |-> parentLine, parentQuote |-> parentQuote,
                       childQuote |-> childQuote]
           /\ ret' = runDedupeCheck(parentLine, parentQuote, childQuote)

NextDedupe == CallHasTextEvidence \/ CallCheckTaxTrap \/ CallRunDedupeCheck \/ Return

SpecDedupe == Init /\ [][NextDedupe]_vars

(***************************************************************************)
(* Properties of the dedupe engine.                                        *)
(***************************************************************************)
Matched == {"EXACT", "SOFT"}

\* t occurs in the text as a non-empty contiguous run of characters
OccursIn(t, text) ==
  \E i \in 1..Len(text), j \in 1..Len(text) : i <= j /\ SubSeq(text, i, j) = t

\* the child's vendor name or quote number is literally written, in any
\* letter case, in the parent's raw text followed by its notes
EvidenceInText(parentQuote, childQuote) ==
  LET text == ToLowerCase(OrEmpty(parentQuote.raw_text) \o <<" ">>
                          \o OrEmpty(parentQuote.notes))
  IN  \/ OccursIn(ToLowerCase(childQuote.vendor_name), text)
      \/ OccursIn(ToLowerCase(OrEmpty(childQuote.quote_number)), text)

\* C1: runDedupeCheck returns AUTO_LINKED only when the child's vendor name or
\* quote number occurs in the parent's text, and every EXACT or SOFT match
\* without that evidence is POTENTIAL_DUPLICATE, whatever its confidence.
C1_NoSilentAutoLink ==
  op = "runDedupeCheck" =>
    /\ ret.status = "AUTO_LINKED"
         => EvidenceInText(args.parentQuote, args.childQuote)
    /\ (ret.match.type \in Matched
        /\ ~EvidenceInText(args.parentQuote, args.childQuote))
         => ret.status = "POTENTIAL_DUPLICATE"

C1_Witness ==
  /\ op = "runDedupeCheck"
  /\ ret.match.type = "EXACT"
  /\ ret.match.confidence = 50
  /\ ~EvidenceInText(args.parentQuote, args.childQuote)
  /\ ret.status = "POTENTIAL_DUPLICATE"

\* C4: NO_MATCH gives status NO_MATCH with neither decision nor target; a
\* match with text evidence gives AUTO_LINKED with the child's id as target
\* and no decision; a match without it gives POTENTIAL_DUPLICATE with one
\* Decision of type POTENTIAL_DUPLICATE (EXACT) or SOFT_MATCH (SOFT) that
\* references the parent line and the child quote and carries match type,
\* variance, parent amount, child total and child subtotal.
C4_DedupeOutcome ==
  op = "runDedupeCheck" =>
    LET evidence == EvidenceInText(args.parentQuote, args.childQuote)
        type     == ret.match.type
    IN  /\ type = "NO_MATCH" =>
             /\ ret.status = "NO_MATCH"
             /\ DOMAIN ret = {"status", "match", "sourceLineId"}
        /\ (type \in Matched /\ evidence) =>
             /\ ret.status = "AUTO_LINKED"
             /\ DOMAIN ret = {"status", "match", "sourceLineId", "targetLineId"}
             /\ ret.targetLineId = args.childQuote.id
        /\ (type \in Matched /\ ~evidence) =>
             /\ ret.status = "POTENTIAL_DUPLICATE"
             /\ DOMAIN ret = {"status", "match", "sourceLineId", "decision"}
             /\ ret.decision.decision_type =
                  (IF type = "EXACT" THEN "POTENTIAL_DUPLICATE" ELSE "SOFT_MATCH")
             /\ ret.decision.line_id_a = args.parentLine.id
             /\ ret.decision.quote_id_b = args.childQuote.id
             /\ ret.decision.evidence =
                  [matchType |-> type,
                   variance |-> ret.match.variancePercent,
                   parentAmount |-> args.parentLine.amount,
                   childTotal |-> args.childQuote.total,
                   childSubtotal |-> args.childQuote.subtotal]

C4_Witness ==
  /\ op = "runDedupeCheck"
  /\ ret.match.type = "SOFT"
  /\ ret.status = "POTENTIAL_DUPLICATE"
  /\ ret.decision.decision_type = "SOFT_MATCH"
  /\ ret.decision.evidence.childTotal # None

\* C5: a second run that differs from the first only in internal identifiers
\* (quote id, project_id, parent_quote_id, line id, quote_id) reports the same
\* hasEvidence and the same status.
C5_IdsAreNoEvidence ==
  /\ op = "hasTextEvidence" =>
       \A ids \in IdAlternatives :
         hasTextEvidence(ParentWithIds(args.parentQuote, ids),
                         ChildWithIds(args.childQuote, ids)).hasEvidence
           = ret.hasEvidence
  /\ op = "runDedupeCheck" =>
       \A ids \in IdAlternatives :
         LET other == runDedupeCheck(LineWithIds(args.parentLine, ids),
                                     ParentWithIds(args.parentQuote, ids),
                                     ChildWithIds(args.childQuote, ids))
         IN  /\ other.status = ret.status
             /\ other.match.hasTextEvidence = ret.match.hasTextEvidence

C5_Witness ==
  /\ op = "runDedupeCheck"
  /\ args.childQuote.parent_quote_id = Some(args.parentQuote.id)
  /\ args.parentLine.quote_id = args.parentQuote.id
  /\ ret.match.type = "EXACT"
  /\ ~ret.match.hasTextEvidence
  /\ ret.status = "POTENTIAL_DUPLICATE"

\* C10: matchesSubtotal and matchesTotal are the tests "differs by less than
\* 0.01" of the line amount against the child's subtotal and total, isTaxTrap
\* is matchesSubtotal and not matchesTotal and total > subtotal, and a line
\* that matches the total is never a tax trap.
C10_TaxTrap ==
  op = "checkTaxTrap" =>
    LET amount == args.parentLineAmount
        child  == args.childQuote
    IN  /\ ret.matchesTotal => ~ret.isTaxTrap
        /\ ret.isTaxTrap => ret.matchesSubtotal
        /\ (child.subtotal # None /\ child.total # None) =>
             /\ ret.matchesSubtotal <=> Abs(amount - child.subtotal[1]) < Cents(1)
             /\ ret.matchesTotal <=> Abs(amount - child.total[1]) < Cents(1)
             /\ ret.isTaxTrap <=> /\ ret.matchesSubtotal
                                  /\ ~ret.matchesTotal
                                  /\ child.total[1] > child.subtotal[1]

\* amount 5000 against subtotal 5000 / total 5350
C10_Witness ==
  /\ op = "checkTaxTrap"
  /\ args.parentLineAmount = Cents(500000)
  /\ args.childQuote.subtotal = Some(Cents(500000))
  /\ args.childQuote.total = Some(Cents(535000))
  /\ ret = [isTaxTrap |-> TRUE, matchesSubtotal |-> TRUE, matchesTotal |-> FALSE]

\* C17: a line without amount matches nothing: runDedupeCheck reports no
\* EXACT match, no tax trap and neither AUTO_LINKED nor POTENTIAL_DUPLICATE
\* for it, whatever the child's subtotal and total (absent, zero or known).
C17_AbsentIsNotZero ==
  (op = "runDedupeCheck" /\ args.parentLine.amount = None) =>
    /\ ret.match.type # "EXACT"
    /\ ret.status = "NO_MATCH"
    /\ ~checkTaxTrap(OrZero(args.parentLine.amount), args.childQuote).isTaxTrap

(***************************************************************************)
(* Inputs and calls of the safety engine.                                  *)
(***************************************************************************)
RECURSIVE SeqsUpTo(_, _)
SeqsUpTo(S, n) ==
  IF n = 0 THEN {<< >>}
  ELSE LET shorter == SeqsUpTo(S, n - 1)
       IN  shorter \cup {Append(q, x) : q \in shorter, x \in S}

ReconciliationRules == {"AUTHORITATIVE", "ADDITIVE", "REFERENCE_ONLY"}

\* reconciliation_rule is nullable in the stored row
StoredRules == ReconciliationRules \cup {"null"}

QuoteOf(id, isWrapper, rule, status, parent, total) ==
  [id |-> id, project_id |-> "p1",
   vendor_name |-> <<"A">>, quote_number |-> None,
   subtotal |-> None, total |-> total,
   is_wrapper |-> isWrapper, reconciliation_rule |-> rule,
   parent_quote_id |-> parent, status |-> status,
   notes |-> None, raw_text |-> None]

WrapperTotals == {None, Some(Dollars(1000)), Some(-Dollars(1000))}

WrapperChildTotals ==
  {None, Some(Dollars(250)), Some(Dollars(450)), Some(Dollars(498)),
   Some(Dollars(500)), Some(Dollars(520))}

WrapperLineAmounts == {None, Some(Dollars(500)), Some(Dollars(501))}

\* the children of wrapper "w", numbered in list order
ChildrenOf(totals) ==
  [i \in 1..Len(totals) |->
     QuoteOf(<<"c", i>>, FALSE, "ADDITIVE", "VERIFIED", Some("w"), totals[i])]

LinesOf(amounts) ==
  [i \in 1..Len(amounts) |->
     [id |-> <<"l", i>>, quote_id |-> "w", description |-> "Wrapper line",
      amount |-> amounts[i]]]

AuditTotals == {0, Dollars(1000), -Dollars(1000)}

AuditSums ==
  {Dollars(k) : k \in {0, 700, 880, 900, 960, 995, 998, 1000, 1005, 1010, 1020}}
    \cup {Dollars(880) - 1, Dollars(960) + 1, Dollars(995) + 1, Dollars(1010) + 1,
          -Dollars(500)}

SoftVariances ==
  {Whole(0), Frac(1, 10), Whole(5), Whole(8), Frac(17, 2), Whole(50), Whole(-3)}

CallAuditWrapperForTaxTrap ==
  /\ op = "idle"
  /\ UNCHANGED project
  /\ \E wrapperTotal \in AuditTotals, childrenSum \in AuditSums :
       /\ op' = "auditWrapperForTaxTrap"
       /\ args' = [wrapperTotal |-> wrapperTotal, childrenSum |-> childrenSum]
       /\ ret' = auditWrapperForTaxTrap(wrapperTotal, childrenSum)

CallValidateWrapperTruth ==
  /\ op = "idle"
  /\ UNCHANGED project
  /\ \E isWrapper \in BOOLEAN, rule \in StoredRules, total \in WrapperTotals,
        childTotals \in SeqsUpTo(WrapperChildTotals, MaxChildren),
        lineAmounts \in SeqsUpTo(WrapperLineAmounts, MaxWrapperLines) :
       LET wrapper == QuoteOf("w", isWrapper, rule, "VERIFIED", None, total)
       IN  /\ op' = "validateWrapperTruth"
           /\ args' = [wrapper |-> wrapper, childQuotes |-> ChildrenOf(childTotals),
                       wrapperLines |-> LinesOf(lineAmounts)]
           /\ ret' = validateWrapperTruth(wrapper, ChildrenOf(childTotals),
                                          LinesOf(lineAmounts))

CallEvaluateSoftMatchSafety ==
  /\ op = "idle"
  /\ UNCHANGED project
  /\ \E variancePercent \in SoftVariances, hasEvidence \in BOOLEAN :
       /\ op' = "evaluateSoftMatchSafety"
       /\ args' = [variancePercent |-> variancePercent, hasTextEvidence |-> hasEvidence,
                   sourceDesc |-> "Drywall", targetDesc |-> "ABC Drywall quote"]
       /\ ret' = evaluateSoftMatchSafety(variancePercent, hasEvidence,
                                         "Drywall", "ABC Drywall quote")

SourceTypes == {"QUOTE", "ESTIMATE", "RATEBOOK"}

ConfidenceVariances ==
  {Whole(-3), Whole(0), Frac(1, 2), Frac(99, 100), Whole(1), Whole(3),
   Frac(499, 100), Whole(5), Frac(501, 100), Whole(8), Whole(100)}

CallCalculateConfidence ==
  /\ op = "idle"
  /\ UNCHANGED project
  /\ \E hasEvidence \in BOOLEAN, variancePercent \in ConfidenceVariances,
        sourceType \in SourceTypes, hasRanges \in BOOLEAN :
       LET params == [hasTextEvidence |-> hasEvidence,
                      variancePercent |-> variancePercent,
                      sourceType |-> sourceType, hasRanges |-> hasRanges]
       IN  /\ op' = "calculateConfidence"
           /\ args' = [params |-> params]
           /\ ret' = calculateConfidence(params)

NextSafety ==
  \/ CallAuditWrapperForTaxTrap
  \/ CallValidateWrapperTruth
  \/ CallEvaluateSoftMatchSafety
  \/ CallCalculateConfidence
  \/ Return

SpecSafety == Init /\ [][NextSafety]_vars

(***************************************************************************)
(* Properties of the safety engine.                                        *)
(***************************************************************************)
\* the sum of the totals of the quotes, an absent total counting as 0
TotalOf(quotes) ==
  LET RECURSIVE upTo(_)
      upTo(n) == IF n = 0 THEN 0
                 ELSE upTo(n - 1) + (IF quotes[n].total = None THEN 0
                                     ELSE quotes[n].total[1])
  IN  upTo(Len(quotes))

\* C6: verifiedCost is wrapper.total (null as 0) under AUTHORITATIVE, whatever
\* the children's totals and the wrapper's lines; the sum of the children's
\* totals under ADDITIVE; 0 under REFERENCE_ONLY.
C6_WrapperVerifiedCost ==
  op = "validateWrapperTruth" =>
    LET rule == args.wrapper.reconciliation_rule
    IN  /\ rule = "AUTHORITATIVE" => ret.verifiedCost = OrZero(args.wrapper.total)
        /\ rule = "ADDITIVE" => ret.verifiedCost = TotalOf(args.childQuotes)
        /\ rule = "REFERENCE_ONLY" => ret.verifiedCost = 0

C6_Witness ==
  /\ op = "validateWrapperTruth"
  /\ args.wrapper.reconciliation_rule = "AUTHORITATIVE"
  /\ args.wrapper.total = Some(Dollars(1000))
  /\ TotalOf(args.childQuotes) = Dollars(900)
  /\ Len(args.wrapperLines) = 2
  /\ ret.verifiedCost = Dollars(1000)

\* C7: isValid is false exactly when issues is non-empty, which is exactly
\* when the wrapper is not marked is_wrapper, or has no reconciliation_rule,
\* or is AUTHORITATIVE with a tax audit of (total, children sum) that reports
\* VARIANCE_WARNING; a TAX_TRAP_DETECTED audit and a line sum more than 1 away
\* from the total add warnings only.
C7_WrapperValidity ==
  op = "validateWrapperTruth" =>
    LET wrapper  == args.wrapper
        total    == OrZero(wrapper.total)
        isAuth   == wrapper.reconciliation_rule = "AUTHORITATIVE"
        audit    == auditWrapperForTaxTrap(total, TotalOf(args.childQuotes)).status
        lineSum  == sumAmounts(args.wrapperLines)
    IN  /\ ret.isValid <=> ret.issues = << >>
        /\ ret.issues # << >> <=>
             \/ ~wrapper.is_wrapper
             \/ wrapper.reconciliation_rule = "null"
             \/ isAuth /\ audit = "VARIANCE_WARNING"
        /\ (isAuth /\ audit = "TAX_TRAP_DETECTED") => Len(ret.warnings) >= 2
        /\ (isAuth /\ Abs(lineSum - total) > Dollars(1)) => Len(ret.warnings) >= 1
        /\ ~isAuth => ret.warnings = << >>

C7_Witness ==
  /\ op = "validateWrapperTruth"
  /\ args.wrapper.is_wrapper
  /\ args.wrapper.reconciliation_rule = "AUTHORITATIVE"
  /\ auditWrapperForTaxTrap(OrZero(args.wrapper.total),
                            TotalOf(args.childQuotes)).status = "TAX_TRAP_DETECTED"
  /\ Abs(sumAmounts(args.wrapperLines) - OrZero(args.wrapper.total)) > Dollars(1)
  /\ Len(ret.warnings) = 3
  /\ ret.isValid

\* the class the rule of C8 gives (wrapperTotal - childrenSum) / wrapperTotal
\* * 100; over a zero total a non-zero difference is an unbounded variance
ClaimedAuditStatus(wrapperTotal, childrenSum) ==
  IF wrapperTotal = 0 THEN "VARIANCE_WARNING"
  ELSE LET v == Frac((wrapperTotal - childrenSum) * 100, wrapperTotal)
       IN  IF FracLt(FracAbs(v), Frac(1, 2)) THEN "OK"
           ELSE IF FracLe(Whole(4), v) /\ FracLe(v, Whole(12)) THEN "TAX_TRAP_DETECTED"
           ELSE IF FracLt(Whole(12), v) \/ FracLt(v, Whole(-1)) THEN "VARIANCE_WARNING"
           ELSE "OK"

\* C8: auditWrapperForTaxTrap classifies variance% = (wrapperTotal -
\* childrenSum) / wrapperTotal * 100 as OK below 0.5 in absolute value,
\* TAX_TRAP_DETECTED from 4 to 12, VARIANCE_WARNING above 12 or below -1, and
\* OK otherwise, for every input.
C8_AuditClassification ==
  (op = "auditWrapperForTaxTrap"
   /\ (args.wrapperTotal # 0 \/ args.childrenSum # 0)) =>
    /\ ret.status = ClaimedAuditStatus(args.wrapperTotal, args.childrenSum)
    /\ args.wrapperTotal # 0 =>
         ret.variancePercent
           = Frac((args.wrapperTotal - args.childrenSum) * 100, args.wrapperTotal)

\* C9: allowed is true iff hasTextEvidence is, for every variancePercent:
\* without evidence the match is rejected and a SOFT_MATCH Decision is
\* required; with evidence it is allowed with no Decision.
C9_SoftMatchGate ==
  op = "evaluateSoftMatchSafety" =>
    /\ ret.allowed <=> args.hasTextEvidence
    /\ ~args.hasTextEvidence =>
         /\ ~ret.allowed
         /\ ret.requiresDecision
         /\ "decision" \in DOMAIN ret
         /\ ret.decision.decision_type = "SOFT_MATCH"
    /\ args.hasTextEvidence =>
         /\ ret.allowed
         /\ ~ret.requiresDecision
         /\ "decision" \notin DOMAIN ret

C9_Witness ==
  /\ op = "evaluateSoftMatchSafety"
  /\ ~args.hasTextEvidence
  /\ args.variancePercent = Frac(1, 10)
  /\ ~ret.allowed
  /\ ret.decision.decision_type = "SOFT_MATCH"

\* HIGH > MEDIUM > LOW
LevelRank(level) ==
  IF level = "HIGH" THEN 3 ELSE IF level = "MEDIUM" THEN 2 ELSE 1

ConfidenceLevels == {"HIGH", "MEDIUM", "LOW"}

\* C12: calculateConfidence returns one of HIGH, MEDIUM, LOW, and with
\* hasTextEvidence, sourceType and hasRanges fixed the level at a larger
\* variancePercent is never higher than the level at a smaller one.
C12_ConfidenceMonotone ==
  op = "calculateConfidence" =>
    /\ ret \in ConfidenceLevels
    /\ \A v \in ConfidenceVariances :
         LET other == calculateConfidence([args.params EXCEPT !.variancePercent = v])
         IN  /\ FracLe(args.params.variancePercent, v)
                  => LevelRank(other) <= LevelRank(ret)
             /\ FracLe(v, args.params.variancePercent)
                  => LevelRank(other) >= LevelRank(ret)

\* a quote-backed match with evidence: HIGH at 0.99%, MEDIUM from 5% on
C12_Witness ==
  /\ op = "calculateConfidence"
  /\ args.params.sourceType = "QUOTE"
  /\ args.params.hasTextEvidence
  /\ args.params.variancePercent = Frac(99, 100)
  /\ ret = "HIGH"
  /\ calculateConfidence([args.params EXCEPT !.variancePercent = Whole(5)]) = "MEDIUM"

(***************************************************************************)
(* Inputs and calls of the summary engine.                                 *)
(***************************************************************************)
\* wrapper flag, rule and status of a quote, and whether it has a total
QuoteKinds ==
  { [is_wrapper |-> TRUE,  rule |-> "AUTHORITATIVE",  status |-> "VERIFIED", priced |-> TRUE],
    [is_wrapper |-> TRUE,  rule |-> "AUTHORITATIVE",  status |-> "PENDING",  priced |-> TRUE],
    [is_wrapper |-> TRUE,  rule |-> "ADDITIVE",       status |-> "VERIFIED", priced |-> TRUE],
    [is_wrapper |-> FALSE, rule |-> "ADDITIVE",       status |-> "VERIFIED", priced |-> TRUE],
    [is_wrapper |-> FALSE, rule |-> "ADDITIVE",       status |-> "VERIFIED", priced |-> FALSE],
    [is_wrapper |-> FALSE, rule |-> "ADDITIVE",       status |-> "PENDING",  priced |-> TRUE],
    [is_wrapper |-> FALSE, rule |-> "REFERENCE_ONLY", status |-> "VERIFIED", priced |-> TRUE] }

RECURSIVE Pow2(_)
Pow2(n) == IF n = 0 THEN 1 ELSE 2 * Pow2(n - 1)

\* the quote at position i has id <<"q", i>>; its total is null or a power of
\* two of dollars, so that a sum of totals tells which totals are in it
QuoteAt(i, kind, parent) ==
  QuoteOf(<<"q", i>>, kind.is_wrapper, kind.rule, kind.status, parent,
          IF kind.priced THEN Some(Dollars(Pow2(i))) ELSE None)

\* a quote may name any other quote of the list as its parent
ParentChoices(n) ==
  {parents \in [1..n -> Optional({<<"q", j>> : j \in 1..n})] :
     \A i \in 1..n : parents[i] # Some(<<"q", i>>)}

QuoteList(n, kinds, parents) == [i \in 1..n |-> QuoteAt(i, kinds[i], parents[i])]

CallCalculateVerifiedCost ==
  /\ op = "idle"
  /\ UNCHANGED project
  /\ \E n \in 0..MaxQuotes :
       \E kinds \in [1..n -> QuoteKinds], parents \in ParentChoices(n) :
         LET quotes == QuoteList(n, kinds, parents)
         IN  /\ op' = "calculateVerifiedCost"
             /\ args' = [quotes |-> quotes]
             /\ ret' = [total |-> calculateVerifiedCost(quotes),
                        added |-> additionsOf(quotes)]

\* most unresolved gaps and most unresolved decisions of a project
MaxOpenItems == 5

VerifiedCosts == {0, Dollars(500), Dollars(510), Dollars(800), Dollars(810)}

PendingCosts ==
  {0, Dollars(190), Dollars(200), Dollars(490), Dollars(500), -Dollars(810)}

EstimatedMids == {0, Dollars(300)}

CallDetermineConfidence ==
  /\ op = "idle"
  /\ UNCHANGED project
  /\ \E verifiedCost \in VerifiedCosts, pendingCost \in PendingCosts,
        estimatedMid \in EstimatedMids,
        gapCount \in 0..MaxOpenItems, decisionCount \in 0..MaxOpenItems :
       /\ op' = "determineConfidence"
       /\ args' = [verifiedCost |-> verifiedCost, pendingCost |-> pendingCost,
                   estimatedMid |-> estimatedMid, gapCount |-> gapCount,
                   decisionCount |-> decisionCount]
       /\ ret' = determineConfidence(verifiedCost, pendingCost, estimatedMid,
                                     gapCount, decisionCount)

NextSummary == CallCalculateVerifiedCost \/ CallDetermineConfidence \/ Return

SpecSummary == Init /\ [][NextSummary]_vars

(***************************************************************************)
(* Properties of the summary engine.                                       *)
(***************************************************************************)
\* the sum of the totals of the quotes at the positions in P, null as 0
RECURSIVE TotalAt(_, _)
TotalAt(quotes, P) ==
  IF P = {} THEN 0
  ELSE LET i == CHOOSE i \in P : TRUE
       IN  (IF quotes[i].total = None THEN 0 ELSE quotes[i].total[1])
             + TotalAt(quotes, P \ {i})

IsVerifiedAuthoritativeWrapper(q) ==
  q.is_wrapper /\ q.reconciliation_rule = "AUTHORITATIVE" /\ q.status = "VERIFIED"

\* q is a child of a VERIFIED AUTHORITATIVE wrapper of the list
IsCoveredChild(quotes, q) ==
  \E w \in 1..Len(quotes) :
    IsVerifiedAuthoritativeWrapper(quotes[w]) /\ q.parent_quote_id = Some(quotes[w].id)

\* C2 as stated: with a VERIFIED AUTHORITATIVE wrapper W in the list, the
\* verified cost is W.total plus the totals of all VERIFIED ADDITIVE quotes
\* that are not children of W.
C2_WrapperPlusAdditive ==
  op = "calculateVerifiedCost" =>
    LET quotes == args.quotes
    IN  \A w \in 1..Len(quotes) :
          IsVerifiedAuthoritativeWrapper(quotes[w]) =>
            ret.total =
              TotalAt(quotes, {w})
                + TotalAt(quotes, {i \in 1..Len(quotes) :
                                     /\ quotes[i].status = "VERIFIED"
                                     /\ quotes[i].reconciliation_rule = "ADDITIVE"
                                     /\ quotes[i].parent_quote_id # Some(quotes[w].id)})

\* C2 as amended: with a VERIFIED AUTHORITATIVE wrapper W in the list, the
\* verified cost is the sum of the totals of all VERIFIED AUTHORITATIVE
\* wrappers (W among them) plus the totals of all VERIFIED non-wrapper
\* ADDITIVE quotes that are children of none of those wrappers.
C2_WrappersPlusPlainAdditive ==
  op = "calculateVerifiedCost" =>
    LET quotes == args.quotes
    IN  (\E w \in 1..Len(quotes) : IsVerifiedAuthoritativeWrapper(quotes[w])) =>
          ret.total =
            TotalAt(quotes, {i \in 1..Len(quotes) :
                               IsVerifiedAuthoritativeWrapper(quotes[i])})
              + TotalAt(quotes, {i \in 1..Len(quotes) :
                                   /\ quotes[i].status = "VERIFIED"
                                   /\ ~quotes[i].is_wrapper
                                   /\ quotes[i].reconciliation_rule = "ADDITIVE"
                                   /\ ~IsCoveredChild(quotes, quotes[i])})

\* wrapper W, a VERIFIED ADDITIVE child of W and a VERIFIED ADDITIVE quote
\* that is no child: the cost is W.total plus the total of the latter
C2_Witness ==
  /\ op = "calculateVerifiedCost"
  /\ Len(args.quotes) = 3
  /\ IsVerifiedAuthoritativeWrapper(args.quotes[1])
  /\ \A i \in {2, 3} : /\ args.quotes[i].status = "VERIFIED"
                       /\ ~args.quotes[i].is_wrapper
                       /\ args.quotes[i].reconciliation_rule = "ADDITIVE"
                       /\ args.quotes[i].total # None
  /\ args.quotes[2].parent_quote_id = Some(args.quotes[1].id)
  /\ args.quotes[3].parent_quote_id = None
  /\ ret.total = Dollars(2) + Dollars(8)

\* C3: for every quote list, calculateVerifiedCost adds each quote's total at
\* most once, never adds the total of a quote whose parent_quote_id names a
\* VERIFIED AUTHORITATIVE wrapper of the list, and never adds the total of a
\* REFERENCE_ONLY quote.
C3_NoDoubleCount ==
  op = "calculateVerifiedCost" =>
    LET quotes == args.quotes
    IN  /\ \A j, k \in 1..Len(ret.added) : ret.added[j] = ret.added[k] => j = k
        /\ \A k \in 1..Len(ret.added) :
             /\ ~IsCoveredChild(quotes, quotes[ret.added[k]])
             /\ quotes[ret.added[k]].reconciliation_rule # "REFERENCE_ONLY"

\* verified / total * 100 > percent, for a total that is not 0
VerifiedShareAbove(verified, total, percent) ==
  IF total > 0 THEN verified * 100 > percent * total
  ELSE verified * 100 < percent * total

\* C20: determineConfidence returns LOW when verified + pending +
\* estimatedMid is 0; otherwise HIGH iff the verified share is above 80% and
\* gapCount < 2 and decisionCount < 2, MEDIUM iff not HIGH and the share is
\* above 50% and gapCount < 5 and decisionCount < 5, and LOW in every other
\* case; with the costs fixed, a larger gapCount or decisionCount never gives
\* a higher confidence.
C20_ProjectConfidence ==
  op = "determineConfidence" =>
    LET total  == args.verifiedCost + args.pendingCost + args.estimatedMid
        isHigh == /\ total # 0
                  /\ VerifiedShareAbove(args.verifiedCost, total, 80)
                  /\ args.gapCount < 2 /\ args.decisionCount < 2
        isMedium == /\ total # 0
                    /\ ~isHigh
                    /\ VerifiedShareAbove(args.verifiedCost, total, 50)
                    /\ args.gapCount < 5 /\ args.decisionCount < 5
    IN  /\ total = 0 => ret = "LOW"
        /\ ret = "HIGH" <=> isHigh
        /\ ret = "MEDIUM" <=> isMedium
        /\ ret = "LOW" <=> (~isHigh /\ ~isMedium)
        /\ \A gaps \in args.gapCount..MaxOpenItems,
              decisions \in args.decisionCount..MaxOpenItems :
             LevelRank(determineConfidence(args.verifiedCost, args.pendingCost,
                                           args.estimatedMid, gaps, decisions))
               <= LevelRank(ret)

\* 81% verified with one gap and one decision is HIGH; a second gap makes it
\* MEDIUM and a fifth LOW
C20_Witness ==
  /\ op = "determineConfidence"
  /\ args.verifiedCost = Dollars(810)
  /\ args.pendingCost = Dollars(190)
  /\ args.estimatedMid = 0
  /\ args.gapCount = 1
  /\ args.decisionCount = 1
  /\ ret = "HIGH"
  /\ determineConfidence(args.verifiedCost, args.pendingCost, args.estimatedMid,
                         2, 1) = "MEDIUM"
  /\ determineConfidence(args.verifiedCost, args.pendingCost, args.estimatedMid,
                         5, 1) = "LOW"

(***************************************************************************)
(* Gap detection engine (src/src/lib/engine/gaps.ts): consolidateGaps.     *)
(* The gap objects live in a heap: the input gaps at references 1..n, the  *)
(* objects the function creates after them.  gapMap is the sequence of its *)
(* entries in insertion order, each a key and the reference it holds.      *)
(***************************************************************************)
\* a value interpolated in a template literal
TemplateText(x) == IF x = None THEN <<"undefined">> ELSE x[1]

\* truthiness of an optional number
Truthy(x) == x # None /\ x[1] # 0

\* (gap.scope_tag || '').toUpperCase()
gapKey(gap) == ToUpperCase(OrEmpty(gap.scope_tag))

\* gapMap.has(key) / gapMap.get(key)
mapHas(map, key) == \E k \in 1..Len(map) : map[k].key = key

mapGet(map, key) == map[CHOOSE k \in 1..Len(map) : map[k].key = key].ref

\* `{ ...gap }`: a new object with the fields of the gap at ref
spreadCopy_alias(heap, ref) == [heap |-> heap, ref |-> ref]

spreadCopy(heap, ref) == [heap |-> Append(heap, heap[ref]), ref |-> Len(heap) + 1]

\* the body of `if (gapMap.has(key))`: the assignments to `existing`
mergeInto(existing, gap) ==
  LET merged == [existing EXCEPT
                   !.source = Some(TemplateText(existing.source) \o <<"; ">>
                                     \o TemplateText(gap.source))]
  IN  IF Truthy(gap.estimated_high)
         /\ (~Truthy(merged.estimated_high)
             \/ gap.estimated_high[1] > merged.estimated_high[1])
      THEN [merged EXCEPT !.estimated_low = gap.estimated_low,
                          !.estimated_mid = gap.estimated_mid,
                          !.estimated_high = gap.estimated_high,
                          !.rate_source = gap.rate_source]
      ELSE merged

\* one iteration of `for (const gap of gaps)`, on the gap at reference i
consolidateStep(st, i) ==
  LET gap == st.heap[i]
      key == gapKey(gap)
  IN  IF mapHas(st.map, key)
      THEN LET e == mapGet(st.map, key)
           IN  [heap |-> [st.heap EXCEPT ![e] = mergeInto(st.heap[e], gap)],
                map  |-> st.map]
      ELSE LET made == spreadCopy(st.heap, i)
           IN  [heap |-> made.heap,
                map  |-> Append(st.map, [key |-> key, ref |-> made.ref])]

RECURSIVE consolidateLoop(_, _)
consolidateLoop(gaps, i) ==
  IF i = 0 THEN [heap |-> gaps, map |-> << >>]
  ELSE consolidateStep(consolidateLoop(gaps, i - 1), i)

\* Array.from(gapMap.values()): the references held, in insertion order
mapValues_reversed(map) == [k \in 1..Len(map) |-> map[Len(map) + 1 - k].ref]

mapValues(map) == [k \in 1..Len(map) |-> map[k].ref]

consolidateGaps(gaps) ==
  LET final == consolidateLoop(gaps, Len(gaps))
      refs  == mapValues(final.map)
  IN  [k \in 1..Len(refs) |-> final.heap[refs[k]]]

\* the input gap objects as consolidateGaps leaves them
gapsAfterConsolidate(gaps) ==
  SubSeq(consolidateLoop(gaps, Len(gaps)).heap, 1, Len(gaps))

(***************************************************************************)
(* Gap detection engine: the keyword scans.  A text is a sequence of       *)
(* one-character strings.                                                  *)
(***************************************************************************)
\* SAFETY_RULES.EXCLUSION_KEYWORDS
EXCLUSION_KEYWORDS ==
  <<
     <<"N", "O", "T", " ", "I", "N", " ", "E", "S", "T", "I", "M", "A", "T", "E">>,
     <<"N", "O", "T", " ", "I", "N", "C", "L", "U", "D", "E", "D">>,
     <<"E", "X", "C", "L", "U", "D", "E", "D">>,
     <<"B", "Y", " ", "O", "T", "H", "E", "R", "S">>,
     <<"N", "I", "C">>,
     <<"N", ".", "I", ".", "C", ".">>,
     <<"A", "L", "L", "O", "W", "A", "N", "C", "E", " ", "O", "N", "L", "Y">>
  >>

\* SAFETY_RULES.LABOR_ONLY_KEYWORDS
LABOR_ONLY_KEYWORDS ==
  <<
     <<"L", "A", "B", "O", "R", " ", "O", "N", "L", "Y">>,
     <<"I", "N", "S", "T", "A", "L", "L", " ", "O", "N", "L", "Y">>,
     <<"I", "N", "S", "T", "A", "L", "L", "A", "T", "I", "O", "N", " ", "O", "N", "L", "Y">>,
     <<"L", "A", "B", "O", "R", " ", "S", "E", "P", "A", "R", "A", "T", "E">>,
     <<"M", "A", "T", "E", "R", "I", "A", "L", "S", " ", "S", "E", "P", "A", "R", "A", "T", "E">>,
     <<"M", "A", "T", "E", "R", "I", "A", "L", "S", " ", "B", "Y", " ", "O", "W", "N", "E", "R">>,
     <<"M", "B", "O">>
  >>

\* SCOPE_DEPENDENCIES (src/src/lib/data/ratebook.ts), amounts in dollars
SCOPE_DEPENDENCIES ==
  <<
    [trigger |->
       <<
         <<"d", "r", "y", "w", "a", "l", "l">>,
         <<"s", "h", "e", "e", "t", "r", "o", "c", "k">>,
         <<"g", "y", "p", "s", "u", "m">>
       >>,
     requires |->
       <<
         <<"p", "a", "i", "n", "t">>,
         <<"p", "r", "i", "m", "e">>,
         <<"f", "i", "n", "i", "s", "h">>
       >>,
     gapDescription |-> <<"Drywall detected but no paint/finish included">>,
     defaultEstimate |-> [low |-> 1500, likely |-> 2500, high |-> 4000,
                          ref |-> <<"RULE:DRYWALL_REQUIRES_PAINT">>]],
    [trigger |->
       <<
         <<"t", "i", "l", "e">>,
         <<"c", "e", "r", "a", "m", "i", "c">>,
         <<"p", "o", "r", "c", "e", "l", "a", "i", "n">>
       >>,
     requires |->
       <<
         <<"t", "h", "i", "n", "s", "e", "t">>,
         <<"m", "o", "r", "t", "a", "r">>,
         <<"g", "r", "o", "u", "t">>,
         <<"s", "u", "b", "f", "l", "o", "o", "r">>
       >>,
     gapDescription |-> <<"Tile detected but prep materials may be missing">>,
     defaultEstimate |-> [low |-> 500, likely |-> 800, high |-> 1200,
                          ref |-> <<"RULE:TILE_REQUIRES_PREP">>]],
    [trigger |->
       <<
         <<"f", "l", "o", "o", "r", "i", "n", "g">>,
         <<"h", "a", "r", "d", "w", "o", "o", "d">>,
         <<"l", "v", "p">>,
         <<"l", "a", "m", "i", "n", "a", "t", "e">>
       >>,
     requires |->
       <<
         <<"d", "e", "m", "o">>,
         <<"r", "e", "m", "o", "v", "a", "l">>,
         <<"s", "u", "b", "f", "l", "o", "o", "r">>,
         <<"u", "n", "d", "e", "r", "l", "a", "y", "m", "e", "n", "t">>
       >>,
     gapDescription |-> <<"Flooring detected but old floor removal not included">>,
     defaultEstimate |-> [low |-> 800, likely |-> 1200, high |-> 2000,
                          ref |-> <<"RULE:FLOORING_REQUIRES_DEMO">>]],
    [trigger |->
       <<
         <<"c", "a", "b", "i", "n", "e", "t", "s">>,
         <<"c", "a", "b", "i", "n", "e", "t">>
       >>,
     requires |->
       <<
         <<"d", "e", "m", "o">>,
         <<"c", "o", "u", "n", "t", "e", "r", "t", "o", "p">>,
         <<"p", "l", "u", "m", "b", "i", "n", "g">>,
         <<"e", "l", "e", "c", "t", "r", "i", "c", "a", "l">>
       >>,
     gapDescription |-> <<"Cabinets detected - verify counters and connections included">>,
     defaultEstimate |-> [low |-> 2000, likely |-> 4000, high |-> 8000,
                          ref |-> <<"RULE:CABINETS_REQUIRE_CONNECTIONS">>]],
    [trigger |->
       <<
         <<"w", "i", "n", "d", "o", "w">>,
         <<"w", "i", "n", "d", "o", "w", "s">>
       >>,
     requires |->
       <<
         <<"t", "r", "i", "m">>,
         <<"c", "a", "s", "i", "n", "g">>,
         <<"f", "l", "a", "s", "h">>,
         <<"c", "a", "u", "l", "k">>
       >>,
     gapDescription |-> <<"Windows detected but interior trim may be missing">>,
     defaultEstimate |-> [low |-> 150, likely |-> 250, high |-> 400,
                          ref |-> <<"RULE:WINDOWS_REQUIRE_TRIM">>]],
    [trigger |->
       <<
         <<"r", "o", "o", "f", "i", "n", "g">>,
         <<"s", "h", "i", "n", "g", "l", "e">>,
         <<"r", "o", "o", "f">>
       >>,
     requires |->
       <<
         <<"d", "e", "m", "o">>,
         <<"t", "e", "a", "r">>,
         <<"f", "l", "a", "s", "h">>,
         <<"d", "r", "i", "p">>,
         <<"i", "c", "e">>,
         <<"u", "n", "d", "e", "r", "l", "a", "y", "m", "e", "n", "t">>
       >>,
     gapDescription |-> <<"Roofing detected but tear-off or underlayment may be missing">>,
     defaultEstimate |-> [low |-> 2000, likely |-> 3500, high |-> 6000,
                          ref |-> <<"RULE:ROOF_REQUIRES_PREP">>]]
  >>

\* the first position at which needle occurs in hay (hay includes needle)
IndexOf(hay, needle) ==
  CHOOSE i \in 1..(Len(hay) - Len(needle) + 1) :
    /\ SubSeq(hay, i, i + Len(needle) - 1) = needle
    /\ \A j \in 1..(i - 1) : SubSeq(hay, j, j + Len(needle) - 1) # needle

\* the first element of list that satisfies Test, as Array.prototype.find
FirstIndex(list, Test(_)) ==
  CHOOSE k \in 1..Len(list) : Test(list[k]) /\ \A j \in 1..(k - 1) : ~Test(list[j])

\* text.trim().split(/\s+/).filter(w => w.length > 2): the maximal runs of
\* non-blank characters that are longer than two characters
RECURSIVE wordsUpTo(_, _)
wordsUpTo(text, n) ==
  IF n = 0 THEN [done |-> << >>, word |-> << >>]
  ELSE LET before == wordsUpTo(text, n - 1)
       IN  IF text[n] = " "
           THEN [done |-> IF Len(before.word) > 2
                          THEN Append(before.done, before.word) ELSE before.done,
                 word |-> << >>]
           ELSE [done |-> before.done, word |-> Append(before.word, text[n])]

scopeWords(text) ==
  LET all == wordsUpTo(text, Len(text))
  IN  IF Len(all.word) > 2 THEN Append(all.done, all.word) ELSE all.done

\* Array.prototype.join
RECURSIVE Join(_, _)
Join(texts, sep) ==
  IF texts = << >> THEN << >>
  ELSE IF Len(texts) = 1 THEN texts[1]
  ELSE Join(SubSeq(texts, 1, Len(texts) - 1), sep) \o sep \o texts[Len(texts)]

\* words.slice(-2)
LastTwo(words) ==
  IF Len(words) <= 2 THEN words ELSE SubSeq(words, Len(words) - 1, Len(words))

containsExclusionKeyword(text) ==
  LET upperText == ToUpperCase(text)
      Found(keyword) == Includes(upperText, keyword)
  IN  IF \E k \in 1..Len(EXCLUSION_KEYWORDS) : Found(EXCLUSION_KEYWORDS[k])
      THEN LET keyword   == EXCLUSION_KEYWORDS[FirstIndex(EXCLUSION_KEYWORDS, Found)]
               scopePart == SubSeq(upperText, 1, IndexOf(upperText, keyword) - 1)
               words     == scopeWords(scopePart)
               joined    == Join(LastTwo(words), <<" ">>)
           IN  [found |-> TRUE, keyword |-> keyword,
                extractedScope |-> IF joined = << >>
                                   THEN <<"U", "N", "S", "P", "E", "C", "I", "F", "I", "E", "D">>
                                   ELSE joined]
      ELSE [found |-> FALSE, keyword |-> << >>, extractedScope |-> << >>]

isLaborOnly(text) ==
  LET upperText == ToUpperCase(text)
      Found(keyword) == Includes(upperText, keyword)
  IN  IF \E k \in 1..Len(LABOR_ONLY_KEYWORDS) : Found(LABOR_ONLY_KEYWORDS[k])
      THEN [isLabor |-> TRUE,
            keyword |-> LABOR_ONLY_KEYWORDS[FirstIndex(LABOR_ONLY_KEYWORDS, Found)]]
      ELSE [isLabor |-> FALSE, keyword |-> << >>]

\* lines.map(l => (l.description || '').toLowerCase()).join(' ')
allDescriptions(lines) ==
  Join([i \in 1..Len(lines) |-> ToLowerCase(lines[i].description)], <<" ">>)

\* the gap scanDestructiveDependencies pushes for one rule
dependencyGap_noRateSource(dep, projectId) ==
  [project_id |-> projectId,
   scope_tag |-> Some(ToUpperCase(dep.trigger[1])),
   description |-> dep.gapDescription,
   source |-> Some(<<"Dependency Rule: ">> \o Join(dep.trigger, <<"/">>)
                     \o <<" requires ">> \o Join(dep.requires, <<"/">>)),
   estimated_low |-> Some(dep.defaultEstimate.low),
   estimated_mid |-> Some(dep.defaultEstimate.likely),
   estimated_high |-> Some(dep.defaultEstimate.high),
   rate_source |-> None,
   confidence |-> "LOW"]

dependencyGap(dep, projectId) ==
  [project_id |-> projectId,
   scope_tag |-> Some(ToUpperCase(dep.trigger[1])),
   description |-> dep.gapDescription,
   source |-> Some(<<"Dependency Rule: ">> \o Join(dep.trigger, <<"/">>)
                     \o <<" requires ">> \o Join(dep.requires, <<"/">>)),
   estimated_low |-> Some(dep.defaultEstimate.low),
   estimated_mid |-> Some(dep.defaultEstimate.likely),
   estimated_high |-> Some(dep.defaultEstimate.high),
   rate_source |-> Some(dep.defaultEstimate.ref),
   confidence |-> "LOW"]

\* whether scanDestructiveDependencies pushes a gap for the rule
dependencyMissing_firstTrigger(dep, allText) ==
  /\ Includes(allText, dep.trigger[1])
  /\ ~\E r \in 1..Len(dep.requires) : Includes(allText, dep.requires[r])

dependencyMissing(dep, allText) ==
  /\ \E t \in 1..Len(dep.trigger) : Includes(allText, dep.trigger[t])
  /\ ~\E r \in 1..Len(dep.requires) : Includes(allText, dep.requires[r])

RECURSIVE dependencyGapsUpTo(_, _, _)
dependencyGapsUpTo(allText, projectId, n) ==
  IF n = 0 THEN << >>
  ELSE dependencyGapsUpTo(allText, projectId, n - 1)
         \o (IF dependencyMissing(SCOPE_DEPENDENCIES[n], allText)
             THEN <<dependencyGap(SCOPE_DEPENDENCIES[n], projectId)>>
             ELSE << >>)

scanDestructiveDependencies(lines, projectId) ==
  dependencyGapsUpTo(allDescriptions(lines), projectId, Len(SCOPE_DEPENDENCIES))

\* `a || b` on two texts
OrText(a, b) == IF a # << >> THEN a ELSE b

\* the gap scanQuoteForGaps pushes for an exclusion in the quote's own text
quoteExclusionGap(quote, exclusion, projectId) ==
  [project_id |-> projectId,
   scope_tag |-> Some(exclusion.extractedScope),
   description |-> <<"Excluded from ">> \o quote.vendor_name \o <<" quote">>,
   source |-> Some(<<"Extracted from: \"">> \o exclusion.keyword
                     \o <<"\" in quote ">>
                     \o OrText(OrEmpty(quote.quote_number), <<quote.id>>)),
   estimated_low |-> None, estimated_mid |-> None, estimated_high |-> None,
   rate_source |-> None,
   confidence |-> "LOW"]

\* the gap it pushes for an exclusion in a line
lineExclusionGap(line, lineExclusion, projectId) ==
  [project_id |-> projectId,
   scope_tag |-> Some(OrText(lineExclusion.extractedScope,
                             OrText(OrEmpty(line.scope_tag),
                                    <<"U", "N", "S", "P", "E", "C", "I", "F", "I", "E", "D">>))),
   description |-> <<"Excluded: ">> \o line.description,
   source |-> Some(<<"Extracted from line: \"">> \o lineExclusion.keyword \o <<"\"">>),
   estimated_low |-> None, estimated_mid |-> None, estimated_high |-> None,
   rate_source |-> None,
   confidence |-> "LOW"]

\* the test `laborCheck.isLabor || line.line_type === 'LABOR'`
flaggedLaborOnly_keywordOnly(laborCheck, line) == laborCheck.isLabor

flaggedLaborOnly(laborCheck, line) ==
  laborCheck.isLabor \/ line.line_type = "LABOR"

\* the materials gap it pushes for a labor-only line
materialsGap(line, laborCheck, projectId) ==
  [project_id |-> projectId,
   scope_tag |-> Some(OrText(OrEmpty(line.scope_tag),
                             <<"M", "A", "T", "E", "R", "I", "A", "L", "S">>)),
   description |-> <<"Materials needed for: ">> \o line.description,
   source |-> Some(<<"Labor-only detected: \"">>
                     \o OrText(laborCheck.keyword, <<"line_type=LABOR">>)
                     \o <<"\"">>),
   estimated_low |-> None, estimated_mid |-> None, estimated_high |-> None,
   rate_source |-> None,
   confidence |-> "LOW"]

\* `${line.description || ''} ${line.notes || ''}`
lineTextOf(line) == line.description \o <<" ">> \o OrEmpty(line.notes)

\* the body of `for (const line of lines)` for one line
scanLine(quote, line, projectId) ==
  LET lineText      == lineTextOf(line)
      lineExclusion == containsExclusionKeyword(lineText)
      laborCheck    == isLaborOnly(lineText)
      labor         == flaggedLaborOnly(laborCheck, line)
  IN  [gaps |-> (IF lineExclusion.found
                 THEN <<lineExclusionGap(line, lineExclusion, projectId)>>
                 ELSE << >>)
                \o (IF labor THEN <<materialsGap(line, laborCheck, projectId)>>
                    ELSE << >>),
       laborOnlyFlags |->
         IF labor
         THEN << [quoteId |-> quote.id, lineId |-> line.id,
                  description |-> line.description] >>
         ELSE << >>]

RECURSIVE scanLinesUpTo(_, _, _, _)
scanLinesUpTo(quote, lines, projectId, n) ==
  IF n = 0 THEN [gaps |-> << >>, laborOnlyFlags |-> << >>]
  ELSE LET before == scanLinesUpTo(quote, lines, projectId, n - 1)
           found  == scanLine(quote, lines[n], projectId)
       IN  [gaps |-> before.gaps \o found.gaps,
            laborOnlyFlags |-> before.laborOnlyFlags \o found.laborOnlyFlags]

scanQuoteForGaps(quote, lines, projectId) ==
  LET quoteText == OrEmpty(quote.notes) \o <<" ">> \o OrEmpty(quote.raw_text)
      exclusion == containsExclusionKeyword(quoteText)
      ofLines   == scanLinesUpTo(quote, lines, projectId, Len(lines))
  IN  [gaps |-> (IF exclusion.found
                 THEN <<quoteExclusionGap(quote, exclusion, projectId)>>
                 ELSE << >>)
                \o ofLines.gaps
                \o scanDestructiveDependencies(lines, projectId),
       laborOnlyFlags |-> ofLines.laborOnlyFlags]

(***************************************************************************)
(* Inputs and calls of the gap detection engine.                           *)
(***************************************************************************)
\* most gaps passed to consolidateGaps
MaxGaps == 3

\* most lines passed to scanQuoteForGaps
MaxScanLines == 2

\* the estimates of a gap, taken together
NoEstimate == [low |-> None, mid |-> None, high |-> None, rate |-> None]

EstimateA ==
  [low |-> Some(100), mid |-> Some(200), high |-> Some(300), rate |-> Some(<<"RULE:A">>)]

EstimateB ==
  [low |-> Some(50), mid |-> Some(300), high |-> Some(400), rate |-> Some(<<"RULE:B">>)]

\* an estimate of no cost
EstimateZero ==
  [low |-> Some(0), mid |-> Some(0), high |-> Some(0), rate |-> Some(<<"RULE:Z">>)]

\* scope_tag, estimates and presence of a source of an input gap
GapKinds ==
  [scope_tag : {None, Some(<<"a">>), Some(<<"A">>), Some(<<"b">>)},
   estimate : {NoEstimate, EstimateA, EstimateB},
   sourced : {TRUE}]
    \cup { [scope_tag |-> Some(<<"a">>), estimate |-> NoEstimate, sourced |-> FALSE],
           [scope_tag |-> Some(<<"a">>), estimate |-> EstimateZero, sourced |-> TRUE],
           [scope_tag |-> None, estimate |-> EstimateA, sourced |-> FALSE],
           [scope_tag |-> Some(<< >>), estimate |-> NoEstimate, sourced |-> FALSE] }

SourceNames == <<"s1", "s2", "s3", "s4", "s5", "s6">>

\* the gap at position i of an input list
GapAt(i, kind) ==
  [project_id |-> "p1",
   scope_tag |-> kind.scope_tag,
   description |-> <<"gap ", SourceNames[i]>>,
   source |-> IF kind.sourced THEN Some(<<SourceNames[i]>>) ELSE None,
   estimated_low |-> kind.estimate.low,
   estimated_mid |-> kind.estimate.mid,
   estimated_high |-> kind.estimate.high,
   rate_source |-> kind.estimate.rate,
   confidence |-> "LOW"]

\* description, notes, scope_tag and line_type of a scanned line
ScanLineKinds ==
  { [description |-> <<"I", "n", "s", "t", "a", "l", "l", " ", "o", "n", "l", "y">>,
     notes |-> None, scope_tag |-> None, line_type |-> "MATERIAL"],
    [description |-> <<"D", "r", "y", "w", "a", "l", "l">>,
     notes |-> None, scope_tag |-> Some(<<"d", "r", "y", "w", "a", "l", "l">>), line_type |-> "LABOR"],
    [description |-> <<"P", "a", "i", "n", "t">>,
     notes |-> None, scope_tag |-> None, line_type |-> "MATERIAL"],
    [description |-> <<"S", "i", "d", "i", "n", "g", " ", "n", "o", "t", " ", "i", "n", "c", "l", "u", "d", "e", "d">>,
     notes |-> None, scope_tag |-> Some(<<"e", "x", "t">>), line_type |-> "MATERIAL"],
    [description |-> <<"E", "x", "c", "l", "u", "d", "e", "d">>,
     notes |-> None, scope_tag |-> Some(<<"r", "o", "o", "f">>), line_type |-> "MATERIAL"],
    [description |-> <<"C", "o", "m", "b", "o">>,
     notes |-> None, scope_tag |-> None, line_type |-> "OTHER"],
    [description |-> <<"L", "a", "b", "o", "r">>,
     notes |-> Some(<<"o", "n", "l", "y">>), scope_tag |-> None, line_type |-> "MATERIAL_AND_LABOR"],
    [description |-> <<"T", "i", "l", "e", " ", "l", "a", "b", "o", "r", " ", "o", "n", "l", "y">>,
     notes |-> Some(<<"g", "r", "o", "u", "t", " ", "b", "y", " ", "o", "t", "h", "e", "r", "s">>), scope_tag |-> Some(<<"t", "i", "l", "e">>), line_type |-> "LABOR"],
    [description |-> <<"C", "a", "b", "i", "n", "e", "t">>,
     notes |-> Some(<<>>), scope_tag |-> None, line_type |-> "MATERIAL_AND_LABOR"],
    [description |-> <<"W", "i", "n", "d", "o", "w", "s">>,
     notes |-> None, scope_tag |-> Some(<<>>), line_type |-> "LABOR"] }

LineIds == <<"l1", "l2", "l3", "l4">>

ScanLineAt(i, kind) ==
  [id |-> LineIds[i], quote_id |-> "q1", description |-> kind.description,
   notes |-> kind.notes, scope_tag |-> kind.scope_tag, line_type |-> kind.line_type]

\* notes and raw_text of the scanned quote
ScanQuoteTexts ==
  { [notes |-> None, raw_text |-> None, quote_number |-> None],
    [notes |-> Some(<<"P", "e", "r", "m", "i", "t", "s", " ", "b", "y", " ", "o", "t", "h", "e", "r", "s">>),
     raw_text |-> None, quote_number |-> Some(<<"7">>)],
    [notes |-> None,
     raw_text |-> Some(<<"a", "l", "l", "o", "w", "a", "n", "c", "e", " ", "o", "n", "l", "y">>),
     quote_number |-> Some(<< >>)] }

ScanQuoteOf(texts) ==
  [id |-> "q1", project_id |-> "p1",
   vendor_name |-> <<"A", "c", "m", "e">>, quote_number |-> texts.quote_number,
   subtotal |-> None, total |-> None,
   is_wrapper |-> FALSE, reconciliation_rule |-> "ADDITIVE",
   parent_quote_id |-> None, status |-> "PENDING",
   notes |-> texts.notes, raw_text |-> texts.raw_text]

CallConsolidateGaps ==
  /\ op = "idle"
  /\ UNCHANGED project
  /\ \E n \in 0..MaxGaps :
       \E kinds \in [1..n -> GapKinds] :
         LET gaps == [i \in 1..n |-> GapAt(i, kinds[i])]
         IN  /\ op' = "consolidateGaps"
             /\ args' = [gaps |-> gaps, gapsAfter |-> gapsAfterConsolidate(gaps)]
             /\ ret' = consolidateGaps(gaps)

CallScanDestructiveDependencies ==
  /\ op = "idle"
  /\ UNCHANGED project
  /\ \E n \in 0..MaxScanLines :
       \E kinds \in [1..n -> ScanLineKinds] :
         LET lines == [i \in 1..n |-> ScanLineAt(i, kinds[i])]
         IN  /\ op' = "scanDestructiveDependencies"
             /\ args' = [lines |-> lines, projectId |-> "p1"]
             /\ ret' = scanDestructiveDependencies(lines, "p1")

CallScanQuoteForGaps ==
  /\ op = "idle"
  /\ UNCHANGED project
  /\ \E texts \in ScanQuoteTexts, n \in 0..MaxScanLines :
       \E kinds \in [1..n -> ScanLineKinds] :
         LET quote == ScanQuoteOf(texts)
             lines == [i \in 1..n |-> ScanLineAt(i, kinds[i])]
         IN  /\ op' = "scanQuoteForGaps"
             /\ args' = [quote |-> quote, lines |-> lines, projectId |-> "p1"]
             /\ ret' = scanQuoteForGaps(quote, lines, "p1")

NextGaps ==
  \/ CallConsolidateGaps
  \/ CallScanDestructiveDependencies
  \/ CallScanQuoteForGaps
  \/ Return

SpecGaps == Init /\ [][NextGaps]_vars

(***************************************************************************)
(* Properties of the gap detection engine.                                 *)
(***************************************************************************)
\* C11: consolidateGaps applied to its own result returns that result, equal
\* in length, in order and in every field of every gap, for every gap list,
\* gaps without scope_tag, source or estimates included, and for the gaps a
\* scan of a quote returns.
C11_ConsolidateIdempotent ==
  /\ op = "consolidateGaps" => consolidateGaps(ret) = ret
  /\ op = "scanQuoteForGaps" =>
       consolidateGaps(consolidateGaps(ret.gaps)) = consolidateGaps(ret.gaps)

\* three gaps, two of one scope_tag in different letter case merged into
\* one, a gap without source and a gap without estimates among them
C11_Witness ==
  /\ op = "consolidateGaps"
  /\ Len(args.gaps) = 3
  /\ Len(ret) = 2
  /\ \E i \in 1..3 : args.gaps[i].source = None /\ args.gaps[i].estimated_high = None
  /\ \E i \in 1..3 : args.gaps[i].scope_tag = None
  /\ \E i \in 1..3 : args.gaps[i].scope_tag = Some(<<"A">>)
  /\ ret[1].scope_tag = Some(<<"a">>)
  /\ ret[1].estimated_high = Some(400)
  /\ Len(ret[1].source[1]) = 3

\* the line is labor-only: its line_type is LABOR, or a labor-only keyword
\* is written, in any letter case, in its description followed by its notes
IsLaborOnlyLine(line) ==
  \/ line.line_type = "LABOR"
  \/ \E k \in 1..Len(LABOR_ONLY_KEYWORDS) :
       OccursIn(LABOR_ONLY_KEYWORDS[k],
                ToUpperCase(line.description \o <<" ">>
                              \o (IF line.notes = None THEN << >> ELSE line.notes[1])))

IsMaterialsGap(gap) == gap.description[1] = "Materials needed for: "

\* the labor-only lines of a list, in list order
LaborOnlyLines(lines) == SelectSeq(lines, IsLaborOnlyLine)

\* C13: scanQuoteForGaps returns one laborOnlyFlags entry and one 'Materials
\* needed for' gap per labor-only line, in line order and whatever the other
\* lines contain, the gap's scope_tag being the line's scope_tag or MATERIALS
\* when the line has none; the other lines get neither flag nor such a gap.
C13_LaborOnlySpawnsMaterialsGap ==
  op = "scanQuoteForGaps" =>
    LET labor     == LaborOnlyLines(args.lines)
        materials == SelectSeq(ret.gaps, IsMaterialsGap)
    IN  /\ Len(ret.laborOnlyFlags) = Len(labor)
        /\ Len(materials) = Len(labor)
        /\ \A k \in 1..Len(labor) :
             /\ ret.laborOnlyFlags[k] =
                  [quoteId |-> args.quote.id, lineId |-> labor[k].id,
                   description |-> labor[k].description]
             /\ materials[k].scope_tag =
                  (IF labor[k].scope_tag \in {None, Some(<< >>)}
                   THEN Some(<<"M", "A", "T", "E", "R", "I", "A", "L", "S">>)
                   ELSE labor[k].scope_tag)
             /\ materials[k].description =
                  <<"Materials needed for: ">> \o labor[k].description
             /\ LET alone == scanQuoteForGaps(args.quote, <<labor[k]>>,
                                               args.projectId).gaps
                IN  \E j \in 1..Len(alone) :
                      IsMaterialsGap(alone[j]) /\ materials[k] = alone[j]

\* a line of line_type LABOR without any keyword, next to a line that is not
\* labor-only and raises an exclusion gap
C13_Witness ==
  /\ op = "scanQuoteForGaps"
  /\ Len(args.lines) = 2
  /\ args.lines[2].line_type = "LABOR"
  /\ ~isLaborOnly(lineTextOf(args.lines[2])).isLabor
  /\ args.lines[2].scope_tag \in {None, Some(<< >>)}
  /\ ~IsLaborOnlyLine(args.lines[1])
  /\ containsExclusionKeyword(lineTextOf(args.lines[1])).found
  /\ Len(ret.laborOnlyFlags) = 1
  /\ \E j \in 1..Len(ret.gaps) :
       /\ IsMaterialsGap(ret.gaps[j])
       /\ ret.gaps[j].scope_tag = Some(<<"M", "A", "T", "E", "R", "I", "A", "L", "S">>)

HasEstimate(gap) ==
  gap.estimated_low # None \/ gap.estimated_mid # None \/ gap.estimated_high # None

\* the gap's estimates are the default estimate of the dependency rule its
\* rate_source names
EstimateOfItsRule(gap) ==
  /\ gap.rate_source # None
  /\ \E r \in 1..Len(SCOPE_DEPENDENCIES) :
       LET estimate == SCOPE_DEPENDENCIES[r].defaultEstimate
       IN  /\ gap.rate_source = Some(estimate.ref)
           /\ gap.estimated_low = Some(estimate.low)
           /\ gap.estimated_mid = Some(estimate.likely)
           /\ gap.estimated_high = Some(estimate.high)

JustifiedGap(gap) ==
  /\ gap.confidence = "LOW"
  /\ HasEstimate(gap) => EstimateOfItsRule(gap)

\* raised from an exclusion keyword or from labor-only detection
IsKeywordGap(gap) ==
  gap.description[1] \in {"Excluded from ", "Excluded: ", "Materials needed for: "}

\* C19: every gap scanQuoteForGaps and scanDestructiveDependencies return has
\* confidence LOW and has estimates only together with the rate_source of
\* the rule they are the default of; the gaps raised from exclusion keywords
\* and labor-only lines have no estimate and no rate_source; the gaps
\* consolidateGaps makes of a scan's gaps keep the first two facts.
C19_GapsAreLowAndSourced ==
  /\ op = "scanDestructiveDependencies" =>
       \A k \in 1..Len(ret) : JustifiedGap(ret[k]) /\ HasEstimate(ret[k])
  /\ op = "scanQuoteForGaps" =>
       /\ \A k \in 1..Len(ret.gaps) :
            /\ JustifiedGap(ret.gaps[k])
            /\ IsKeywordGap(ret.gaps[k]) =>
                 ~HasEstimate(ret.gaps[k]) /\ ret.gaps[k].rate_source = None
       /\ \A k \in 1..Len(consolidateGaps(ret.gaps)) :
            JustifiedGap(consolidateGaps(ret.gaps)[k])

\* a scan that returns a materials gap without estimate and the drywall
\* rule's gap with its estimate, which consolidateGaps merges into one
C19_Witness ==
  /\ op = "scanQuoteForGaps"
  /\ \E j, k \in 1..Len(ret.gaps) :
       /\ IsMaterialsGap(ret.gaps[j])
       /\ ~HasEstimate(ret.gaps[j])
       /\ ret.gaps[k].rate_source = Some(<<"RULE:DRYWALL_REQUIRES_PAINT">>)
       /\ ret.gaps[k].estimated_mid = Some(2500)
       /\ gapKey(ret.gaps[j]) = gapKey(ret.gaps[k])
  /\ Len(consolidateGaps(ret.gaps)) < Len(ret.gaps)
  /\ \E k \in 1..Len(consolidateGaps(ret.gaps)) :
       /\ IsMaterialsGap(consolidateGaps(ret.gaps)[k])
       /\ HasEstimate(consolidateGaps(ret.gaps)[k])

(***************************************************************************)
(* Conflict detection engine (src/src/lib/engine/conflict.ts).             *)
(***************************************************************************)
\* Object.entries(BRAND_CATALOGS) (src/src/lib/data/ratebook.ts)
BRAND_CATALOGS ==
  <<
    [category |-> <<"w", "i", "n", "d", "o", "w", "s">>,
     brands |->
       <<
         <<"a", "n", "d", "e", "r", "s", "e", "n">>,
         <<"h", "a", "r", "v", "e", "y">>,
         <<"p", "e", "l", "l", "a">>,
         <<"m", "a", "r", "v", "i", "n">>,
         <<"m", "i", "l", "g", "a", "r", "d">>,
         <<"r", "e", "n", "e", "w", "a", "l">>
       >>],
    [category |-> <<"p", "l", "u", "m", "b", "i", "n", "g">>,
     brands |->
       <<
         <<"k", "o", "h", "l", "e", "r">>,
         <<"m", "o", "e", "n">>,
         <<"d", "e", "l", "t", "a">>,
         <<"a", "m", "e", "r", "i", "c", "a", "n", " ", "s", "t", "a", "n", "d", "a", "r", "d">>,
         <<"g", "r", "o", "h", "e">>,
         <<"h", "a", "n", "s", "g", "r", "o", "h", "e">>
       >>],
    [category |-> <<"a", "p", "p", "l", "i", "a", "n", "c", "e", "s">>,
     brands |->
       <<
         <<"g", "e">>,
         <<"w", "h", "i", "r", "l", "p", "o", "o", "l">>,
         <<"s", "a", "m", "s", "u", "n", "g">>,
         <<"l", "g">>,
         <<"b", "o", "s", "c", "h">>,
         <<"k", "i", "t", "c", "h", "e", "n", "a", "i", "d">>,
         <<"f", "r", "i", "g", "i", "d", "a", "i", "r", "e">>
       >>],
    [category |-> <<"h", "v", "a", "c">>,
     brands |->
       <<
         <<"c", "a", "r", "r", "i", "e", "r">>,
         <<"t", "r", "a", "n", "e">>,
         <<"l", "e", "n", "n", "o", "x">>,
         <<"r", "h", "e", "e", "m">>,
         <<"g", "o", "o", "d", "m", "a", "n">>,
         <<"d", "a", "i", "k", "i", "n">>
       >>],
    [category |-> <<"r", "o", "o", "f", "i", "n", "g">>,
     brands |->
       <<
         <<"g", "a", "f">>,
         <<"c", "e", "r", "t", "a", "i", "n", "t", "e", "e", "d">>,
         <<"o", "w", "e", "n", "s", " ", "c", "o", "r", "n", "i", "n", "g">>,
         <<"i", "k", "o">>,
         <<"t", "a", "m", "k", "o">>
       >>],
    [category |-> <<"p", "a", "i", "n", "t">>,
     brands |->
       <<
         <<"b", "e", "n", "j", "a", "m", "i", "n", " ", "m", "o", "o", "r", "e">>,
         <<"s", "h", "e", "r", "w", "i", "n", " ", "w", "i", "l", "l", "i", "a", "m", "s">>,
         <<"b", "e", "h", "r">>,
         <<"p", "p", "g">>,
         <<"d", "u", "n", "n", " ", "e", "d", "w", "a", "r", "d", "s">>
       >>],
    [category |-> <<"c", "a", "b", "i", "n", "e", "t", "s">>,
     brands |->
       <<
         <<"k", "r", "a", "f", "t", "m", "a", "i", "d">>,
         <<"m", "e", "r", "i", "l", "l", "a", "t">>,
         <<"t", "h", "o", "m", "a", "s", "v", "i", "l", "l", "e">>,
         <<"i", "k", "e", "a">>,
         <<"c", "u", "s", "t", "o", "m">>
       >>]
  >>

\* brands.find(brand => text.includes(brand)): the first brand of the
\* catalog found in the text, or none
findBrand(brands, text) ==
  LET Found(brand) == Includes(text, brand)
  IN  IF \E k \in 1..Len(brands) : Found(brands[k])
      THEN Some(brands[FirstIndex(brands, Found)])
      ELSE None

\* the conflicts scanForBrandConflicts pushes for one category and one line
lineBrandConflict(category, planBrand, line) ==
  LET lineLower == ToLowerCase(line.description)
      lineBrand == findBrand(category.brands, lineLower)
  IN  IF lineBrand # None /\ lineBrand[1] # planBrand
      THEN << [category |-> category.category,
               planBrand |-> ToUpperCase(planBrand),
               quoteBrand |-> ToUpperCase(lineBrand[1]),
               quoteLineId |-> line.id,
               severity |-> "CRITICAL",
               description |-> <<"Plan specifies ">> \o ToUpperCase(planBrand)
                                 \o <<" ">> \o category.category
                                 \o <<", but quote includes ">>
                                 \o ToUpperCase(lineBrand[1]) \o <<".">>] >>
      ELSE << >>

RECURSIVE categoryConflictsUpTo(_, _, _, _)
categoryConflictsUpTo(category, planBrand, quoteLines, n) ==
  IF n = 0 THEN << >>
  ELSE categoryConflictsUpTo(category, planBrand, quoteLines, n - 1)
         \o lineBrandConflict(category, planBrand, quoteLines[n])

RECURSIVE brandConflictsUpTo(_, _, _)
brandConflictsUpTo(planLower, quoteLines, c) ==
  IF c = 0 THEN << >>
  ELSE LET category  == BRAND_CATALOGS[c]
           planBrand == findBrand(category.brands, planLower)
       IN  brandConflictsUpTo(planLower, quoteLines, c - 1)
             \o (IF planBrand # None
                 THEN categoryConflictsUpTo(category, planBrand[1], quoteLines,
                                            Len(quoteLines))
                 ELSE << >>)

scanForBrandConflicts(planText, quoteLines) ==
  brandConflictsUpTo(ToLowerCase(planText), quoteLines, Len(BRAND_CATALOGS))

\* the Decision createBrandConflictDecisions makes of one conflict
brandConflictDecision_resolved(projectId, conflict) ==
  [project_id |-> projectId,
   decision_type |-> "BRAND_CONFLICT",
   title |-> ToUpperCase(conflict.category) \o <<" Brand Mismatch">>,
   description |-> conflict.description,
   line_id_a |-> conflict.quoteLineId,
   evidence |-> [category |-> conflict.category,
                 planBrand |-> conflict.planBrand,
                 quoteBrand |-> conflict.quoteBrand,
                 severity |-> conflict.severity],
   resolved |-> TRUE,
   resolution |-> <<"Use the brand of the plan">>]

brandConflictDecision(projectId, conflict) ==
  [project_id |-> projectId,
   decision_type |-> "BRAND_CONFLICT",
   title |-> ToUpperCase(conflict.category) \o <<" Brand Mismatch">>,
   description |-> conflict.description,
   line_id_a |-> conflict.quoteLineId,
   evidence |-> [category |-> conflict.category,
                 planBrand |-> conflict.planBrand,
                 quoteBrand |-> conflict.quoteBrand,
                 severity |-> conflict.severity],
   resolved |-> FALSE]

createBrandConflictDecisions(projectId, conflicts) ==
  [k \in 1..Len(conflicts) |-> brandConflictDecision(projectId, conflicts[k])]

DecimalDigits == <<"0", "1", "2", "3", "4", "5", "6", "7", "8", "9">>

IsDigit(c) == \E d \in 1..10 : DecimalDigits[d] = c

DigitValue(c) == (CHOOSE d \in 1..10 : DecimalDigits[d] = c) - 1

\* parseInt of a run of digits
RECURSIVE ParseInt(_)
ParseInt(digits) ==
  IF digits = << >> THEN 0
  ELSE 10 * ParseInt(SubSeq(digits, 1, Len(digits) - 1)) + DigitValue(digits[Len(digits)])

\* `${n}` of a natural number
RECURSIVE DecimalText(_)
DecimalText(n) ==
  IF n < 10 THEN <<DecimalDigits[n + 1]>>
  ELSE DecimalText(n \div 10) \o <<DecimalDigits[(n % 10) + 1]>>

\* the last position of the run of digits that starts at i
DigitRunEnd(text, i) ==
  CHOOSE j \in i..Len(text) :
    /\ \A k \in i..j : IsDigit(text[k])
    /\ (j = Len(text) \/ ~IsDigit(text[j + 1]))

\* \s* from position i: the first position at or after i that holds no blank
SkipBlanks(text, i) ==
  CHOOSE j \in i..(Len(text) + 1) :
    /\ \A k \in i..(j - 1) : text[k] = " "
    /\ (j = Len(text) + 1 \/ text[j] # " ")

HasAt(text, i, chars) == i <= Len(text) /\ text[i] \in chars

IsDigitAt(text, i) == i <= Len(text) /\ IsDigit(text[i])

XChars == {"x", "X"}

QuoteChars == {"'", "\""}

\* \s*[xX]\s*(\d+) from position i: the digits of the group, or none
timesDigitsAt(text, i) ==
  LET x == SkipBlanks(text, i)
  IN  IF HasAt(text, x, XChars)
      THEN LET d == SkipBlanks(text, x + 1)
           IN  IF IsDigitAt(text, d)
               THEN Some([from |-> d, to |-> DigitRunEnd(text, d)])
               ELSE None
      ELSE None

\* /(\d+)\s*[xX]\s*(\d+)/ matched at position i: groups 1 and 2, or none
pattern1At(text, i) ==
  IF ~IsDigitAt(text, i) THEN None
  ELSE LET e1 == DigitRunEnd(text, i)
           g2 == timesDigitsAt(text, e1 + 1)
       IN  IF g2 = None THEN None
           ELSE Some([width |-> SubSeq(text, i, e1),
                      height |-> SubSeq(text, g2[1].from, g2[1].to)])

\* /(\d+)['"]\s*[xX]\s*(\d+)['"]/ matched at position i
pattern2At(text, i) ==
  IF ~IsDigitAt(text, i) THEN None
  ELSE LET e1 == DigitRunEnd(text, i)
           g2 == IF HasAt(text, e1 + 1, QuoteChars)
                 THEN timesDigitsAt(text, e1 + 2) ELSE None
       IN  IF g2 = None \/ ~HasAt(text, (IF g2 = None THEN 0 ELSE g2[1].to) + 1, QuoteChars)
           THEN None
           ELSE Some([width |-> SubSeq(text, i, e1),
                      height |-> SubSeq(text, g2[1].from, g2[1].to)])

\* /(\d+)'(\d+)?['""]?\s*[xX]\s*(\d+)'(\d+)?['""]?/ matched at position i,
\* with match[2] || match[3] as the height
pattern3At(text, i) ==
  IF ~IsDigitAt(text, i) THEN None
  ELSE LET e1 == DigitRunEnd(text, i)
       IN  IF ~HasAt(text, e1 + 1, {"'"}) THEN None
           ELSE LET e2 == IF IsDigitAt(text, e1 + 2)
                          THEN DigitRunEnd(text, e1 + 2) ELSE e1 + 1
                    q  == IF HasAt(text, e2 + 1, QuoteChars) THEN e2 + 1 ELSE e2
                    g3 == timesDigitsAt(text, q + 1)
                IN  IF g3 = None \/ ~HasAt(text, (IF g3 = None THEN 0 ELSE g3[1].to) + 1, {"'"})
                    THEN None
                    ELSE Some([width |-> SubSeq(text, i, e1),
                               height |-> IF e2 > e1 + 1
                                          THEN SubSeq(text, e1 + 2, e2)
                                          ELSE SubSeq(text, g3[1].from, g3[1].to)])

\* text.match(pattern): the match at the leftmost position that has one
firstMatch(text, PatternAt(_, _)) ==
  LET starts == {i \in 1..Len(text) : PatternAt(text, i) # None}
  IN  IF starts = {} THEN None
      ELSE PatternAt(text, CHOOSE i \in starts : \A j \in starts : i <= j)

\* width and height as numbers, or none for {}
parseDimensions(text) ==
  LET m1 == firstMatch(text, pattern1At)
      m2 == firstMatch(text, pattern2At)
      m3 == firstMatch(text, pattern3At)
      m  == IF m1 # None THEN m1 ELSE IF m2 # None THEN m2 ELSE m3
  IN  IF m = None THEN None
      ELSE Some([width |-> ParseInt(m[1].width), height |-> ParseInt(m[1].height)])

\* the variance scanForSpecVariances pushes for one dimension
dimensionVariance(field, planValue, quoteValue) ==
  IF planValue # 0 /\ quoteValue # 0 /\ planValue # quoteValue
  THEN << [field |-> field, planValue |-> DecimalText(planValue),
           quoteValue |-> DecimalText(quoteValue), severity |-> "CRITICAL"] >>
  ELSE << >>

scanForSpecVariances(planText, quoteText) ==
  LET planDims  == parseDimensions(planText)
      quoteDims == parseDimensions(quoteText)
  IN  IF planDims = None \/ quoteDims = None THEN << >>
      ELSE dimensionVariance(<<"w", "i", "d", "t", "h">>,
                             planDims[1].width, quoteDims[1].width)
             \o dimensionVariance(<<"h", "e", "i", "g", "h", "t">>,
                                  planDims[1].height, quoteDims[1].height)

\* the default of the parameter tolerancePercent
DEFAULT_TOLERANCE_PERCENT == 10

\* quoteLines.find(l => l.scope_tag?.toUpperCase() === takeoff.scopeTag.toUpperCase())
findLineByScope(quoteLines, scopeTag) ==
  LET Same(line) == /\ line.scope_tag # None
                    /\ ToUpperCase(line.scope_tag[1]) = ToUpperCase(scopeTag)
  IN  IF \E k \in 1..Len(quoteLines) : Same(quoteLines[k])
      THEN Some(quoteLines[FirstIndex(quoteLines, Same)])
      ELSE None

\* Math.abs((quantity - qty) / qty * 100); a division of a non-zero number
\* by zero gives an infinity, the fraction 1/0
quantityVariance(quantity, qty) == FracAbs(Frac((quantity - qty) * 100, qty))

\* the mismatches detectQuantityMismatches pushes for one takeoff item
takeoffMismatch(takeoff, quoteLines, tolerancePercent) ==
  LET matchingLine == findLineByScope(quoteLines, takeoff.scopeTag)
  IN  IF matchingLine # None /\ Truthy(matchingLine[1].quantity)
      THEN LET variancePercent ==
                 quantityVariance(matchingLine[1].quantity[1], takeoff.qty)
           IN  IF FracLt(Whole(tolerancePercent), variancePercent)
               THEN << [scopeTag |-> takeoff.scopeTag,
                        expectedQty |-> takeoff.qty,
                        quotedQty |-> matchingLine[1].quantity[1],
                        variancePercent |-> variancePercent,
                        severity |-> IF FracLt(Whole(25), variancePercent)
                                     THEN "CRITICAL" ELSE "WARNING"] >>
               ELSE << >>
      ELSE << >>

RECURSIVE mismatchesUpTo(_, _, _, _)
mismatchesUpTo(takeoffItems, quoteLines, tolerancePercent, n) ==
  IF n = 0 THEN << >>
  ELSE mismatchesUpTo(takeoffItems, quoteLines, tolerancePercent, n - 1)
         \o takeoffMismatch(takeoffItems[n], quoteLines, tolerancePercent)

detectQuantityMismatches(takeoffItems, quoteLines, tolerancePercent) ==
  mismatchesUpTo(takeoffItems, quoteLines, tolerancePercent, Len(takeoffItems))

\* the Decision runConflictScan pushes for a CRITICAL spec variance
specConflictDecision(projectId, v) ==
  [project_id |-> projectId,
   decision_type |-> "SPEC_CONFLICT",
   title |-> ToUpperCase(v.field) \o <<" Dimension Mismatch">>,
   description |-> <<"Plan shows ">> \o v.planValue \o <<", quote shows ">>
                     \o v.quoteValue \o <<".">>,
   resolved |-> FALSE]

IsCritical(issue) == issue.severity = "CRITICAL"

\* hasBlockingIssues of runConflictScan
blockingIssues_quantityToo(brandConflicts, specVariances, quantityMismatches) ==
  \/ \E k \in 1..Len(brandConflicts) : IsCritical(brandConflicts[k])
  \/ \E k \in 1..Len(specVariances) : IsCritical(specVariances[k])
  \/ \E k \in 1..Len(quantityMismatches) : IsCritical(quantityMismatches[k])

blockingIssues(brandConflicts, specVariances, quantityMismatches) ==
  \/ \E k \in 1..Len(brandConflicts) : IsCritical(brandConflicts[k])
  \/ \E k \in 1..Len(specVariances) : IsCritical(specVariances[k])

\* takeoffItems is an optional parameter; each const of the function is
\* computed once
runConflictScan(projectId, planText, quoteLines, takeoffItems) ==
  LET quoteText == Join([i \in 1..Len(quoteLines) |-> quoteLines[i].description],
                        <<" ">>)
  IN  TheOne({
        LET critical  == SelectSeq(specVariances, IsCritical)
            decisions == createBrandConflictDecisions(projectId, brandConflicts)
                           \o [k \in 1..Len(critical) |->
                                 specConflictDecision(projectId, critical[k])]
        IN  [brandConflicts |-> brandConflicts,
             specVariances |-> specVariances,
             quantityMismatches |-> quantityMismatches,
             hasBlockingIssues |->
               blockingIssues(brandConflicts, specVariances, quantityMismatches),
             decisions |-> decisions] :
        brandConflicts \in {scanForBrandConflicts(planText, quoteLines)},
        specVariances \in {scanForSpecVariances(planText, quoteText)},
        quantityMismatches \in
          {IF takeoffItems # None
           THEN detectQuantityMismatches(takeoffItems[1], quoteLines,
                                         DEFAULT_TOLERANCE_PERCENT)
           ELSE << >>} })

(***************************************************************************)
(* Inputs and calls of the conflict detection engine.                      *)
(***************************************************************************)
\* most quote lines passed to the conflict scans
MaxConflictLines == 2

\* description, scope_tag and quantity of a quote line
ConflictLineKinds ==
  { [description |-> <<"P", "e", "l", "l", "a", " ", "w", "i", "n", "d", "o", "w", " ", "3", "6", "x", "8", "0">>,
     scope_tag |-> Some(<<"w", "i", "n", "d", "o", "w", "s">>), quantity |-> Some(13)],
    [description |-> <<"A", "n", "d", "e", "r", "s", "e", "n", " ", "3", "2", " ", "x", " ", "8", "0">>,
     scope_tag |-> Some(<<"W", "i", "n", "d", "o", "w", "s">>), quantity |-> Some(12)],
    [description |-> <<"M", "o", "e", "n", " ", "f", "a", "u", "c", "e", "t">>,
     scope_tag |-> None, quantity |-> None],
    [description |-> <<"H", "i", "n", "g", "e", " ", "s", "e", "t">>,
     scope_tag |-> Some(<<"d", "o", "o", "r", "s">>), quantity |-> Some(0)],
    [description |-> <<"A", "n", "d", "e", "r", "s", "e", "n", " ", "a", "n", "d", " ", "P", "e", "l", "l", "a", " ", "3", "6", "\"", "x", "8", "0", "\"">>,
     scope_tag |-> Some(<<"W", "I", "N", "D", "O", "W", "S">>), quantity |-> Some(10)],
    [description |-> <<"D", "r", "y", "w", "a", "l", "l">>,
     scope_tag |-> Some(<<"d", "r", "y", "w", "a", "l", "l">>), quantity |-> Some(11)],
    [description |-> <<"D", "o", "o", "r", " ", "3", "'", "'", "x", "6", "'">>,
     scope_tag |-> Some(<<"d", "o", "o", "r", "s">>), quantity |-> Some(20)] }

ConflictLineAt(i, kind) ==
  [id |-> LineIds[i], quote_id |-> "q1", description |-> kind.description,
   scope_tag |-> kind.scope_tag, quantity |-> kind.quantity,
   line_type |-> "MATERIAL"]

PlanTexts ==
  { <<>>,
    <<"A", "n", "d", "e", "r", "s", "e", "n", " ", "w", "i", "n", "d", "o", "w", "s", " ", "3", "6", "x", "8", "0">>,
    <<"K", "o", "h", "l", "e", "r", " ", "a", "n", "d", " ", "P", "e", "l", "l", "a", ",", " ", "G", "E", " ", "r", "a", "n", "g", "e", " ", "3", "0", "x", "8", "0">>,
    <<"D", "o", "o", "r", " ", "3", "'", "'", "x", "7", "'">> }

TakeoffLists ==
  { << >>,
    << [scopeTag |-> <<"W", "I", "N", "D", "O", "W", "S">>, qty |-> 10, unit |-> "EA"] >>,
    << [scopeTag |-> <<"w", "i", "n", "d", "o", "w", "s">>, qty |-> 0, unit |-> "EA"],
       [scopeTag |-> <<"d", "r", "y", "w", "a", "l", "l">>, qty |-> 10, unit |-> "EA"] >>,
    << [scopeTag |-> <<"d", "o", "o", "r", "s">>, qty |-> 0, unit |-> "EA"],
       [scopeTag |-> <<"r", "o", "o", "f", "i", "n", "g">>, qty |-> 5, unit |-> "EA"] >>,
    << [scopeTag |-> <<"D", "o", "o", "r", "s">>, qty |-> 16, unit |-> "EA"] >> }

Tolerances == {DEFAULT_TOLERANCE_PERCENT, 0, 25}

CallScanForBrandConflicts ==
  /\ op = "idle"
  /\ UNCHANGED project
  /\ \E planText \in PlanTexts, n \in 0..MaxConflictLines :
       \E kinds \in [1..n -> ConflictLineKinds] :
         LET quoteLines == [i \in 1..n |-> ConflictLineAt(i, kinds[i])]
         IN  /\ op' = "scanForBrandConflicts"
             /\ args' = [planText |-> planText, quoteLines |-> quoteLines]
             /\ ret' = scanForBrandConflicts(planText, quoteLines)

CallCreateBrandConflictDecisions ==
  /\ op = "idle"
  /\ UNCHANGED project
  /\ \E planText \in PlanTexts, n \in 0..MaxConflictLines :
       \E kinds \in [1..n -> ConflictLineKinds] :
         LET quoteLines == [i \in 1..n |-> ConflictLineAt(i, kinds[i])]
             conflicts  == scanForBrandConflicts(planText, quoteLines)
         IN  /\ op' = "createBrandConflictDecisions"
             /\ args' = [projectId |-> "p1", conflicts |-> conflicts]
             /\ ret' = createBrandConflictDecisions("p1", conflicts)

CallDetectQuantityMismatches ==
  /\ op = "idle"
  /\ UNCHANGED project
  /\ \E takeoffItems \in TakeoffLists, tolerancePercent \in Tolerances,
        n \in 0..MaxConflictLines :
       \E kinds \in [1..n -> ConflictLineKinds] :
         LET quoteLines == [i \in 1..n |-> ConflictLineAt(i, kinds[i])]
         IN  /\ op' = "detectQuantityMismatches"
             /\ args' = [takeoffItems |-> takeoffItems, quoteLines |-> quoteLines,
                         tolerancePercent |-> tolerancePercent]
             /\ ret' = detectQuantityMismatches(takeoffItems, quoteLines,
                                                tolerancePercent)

CallRunConflictScan ==
  /\ op = "idle"
  /\ UNCHANGED project
  /\ \E planText \in PlanTexts, takeoffItems \in Optional(TakeoffLists),
        n \in 0..MaxConflictLines :
       \E kinds \in [1..n -> ConflictLineKinds] :
         LET quoteLines == [i \in 1..n |-> ConflictLineAt(i, kinds[i])]
         IN  /\ op' = "runConflictScan"
             /\ args' = [projectId |-> "p1", planText |-> planText,
                         quoteLines |-> quoteLines, takeoffItems |-> takeoffItems]
             /\ ret' = runConflictScan("p1", planText, quoteLines, takeoffItems)

NextConflict ==
  \/ CallScanForBrandConflicts
  \/ CallCreateBrandConflictDecisions
  \/ CallDetectQuantityMismatches
  \/ CallRunConflictScan
  \/ Return

SpecConflict == Init /\ [][NextConflict]_vars

(***************************************************************************)
(* Properties of the conflict detection engine.                            *)
(***************************************************************************)
\* the number of elements of a sequence that satisfy Test
CountOf(seq, Test(_)) == Cardinality({k \in 1..Len(seq) : Test(seq[k])})

\* C14: hasBlockingIssues is true iff a brand conflict or a spec variance of
\* severity CRITICAL exists; decisions holds one BRAND_CONFLICT Decision per
\* brand conflict, in order, followed by one SPEC_CONFLICT Decision per
\* CRITICAL spec variance; quantity mismatches, CRITICAL ones included, add
\* no Decision and do not set hasBlockingIssues.
C14_ConflictScanDecisions ==
  op = "runConflictScan" =>
    LET brands   == ret.brandConflicts
        critical == CountOf(ret.specVariances, IsCritical)
        unscaled == runConflictScan(args.projectId, args.planText,
                                    args.quoteLines, None)
    IN  /\ ret.hasBlockingIssues <=>
             (CountOf(brands, IsCritical) > 0 \/ critical > 0)
        /\ Len(ret.decisions) = Len(brands) + critical
        /\ \A k \in 1..Len(ret.decisions) :
             IF k <= Len(brands)
             THEN /\ ret.decisions[k].decision_type = "BRAND_CONFLICT"
                  /\ ret.decisions[k].line_id_a = brands[k].quoteLineId
                  /\ ret.decisions[k].evidence.quoteBrand = brands[k].quoteBrand
             ELSE ret.decisions[k].decision_type = "SPEC_CONFLICT"
        /\ ret.decisions = unscaled.decisions
        /\ ret.hasBlockingIssues = unscaled.hasBlockingIssues

\* a brand conflict, a CRITICAL spec variance and a CRITICAL quantity
\* mismatch in one scan: two Decisions, none for the quantity
C14_Witness ==
  /\ op = "runConflictScan"
  /\ Len(ret.brandConflicts) = 1
  /\ Len(ret.specVariances) = 1
  /\ CountOf(ret.quantityMismatches, IsCritical) > 0
  /\ ret.hasBlockingIssues
  /\ Len(ret.decisions) = 2
  /\ ret.decisions[1].decision_type = "BRAND_CONFLICT"
  /\ ret.decisions[2].decision_type = "SPEC_CONFLICT"

(***************************************************************************)
(* The functions that emit Decisions, of the three engines.                *)
(***************************************************************************)
NextDecisions ==
  \/ CallRunDedupeCheck
  \/ CallEvaluateSoftMatchSafety
  \/ CallCreateBrandConflictDecisions
  \/ CallRunConflictScan
  \/ Return

SpecDecisions == Init /\ [][NextDecisions]_vars

\* the Decisions in the value the current call returned
EmittedDecisions ==
  IF op \in {"runDedupeCheck", "evaluateSoftMatchSafety"}
  THEN IF "decision" \in DOMAIN ret THEN {ret.decision} ELSE {}
  ELSE IF op = "createBrandConflictDecisions"
  THEN {ret[k] : k \in 1..Len(ret)}
  ELSE IF op = "runConflictScan"
  THEN {ret.decisions[k] : k \in 1..Len(ret.decisions)}
  ELSE {}

\* C15: every Decision returned by runDedupeCheck, evaluateSoftMatchSafety,
\* createBrandConflictDecisions and runConflictScan is unresolved: resolved
\* is absent or false, and it has neither resolution nor resolved_at.
C15_NoResolvedDecision ==
  \A d \in EmittedDecisions :
    /\ "resolved" \in DOMAIN d => d.resolved = FALSE
    /\ "resolution" \notin DOMAIN d
    /\ "resolved_at" \notin DOMAIN d

\* two brand conflicts turned into two Decisions with resolved = false
C15_Witness ==
  /\ op = "createBrandConflictDecisions"
  /\ Len(args.conflicts) = 2
  /\ Cardinality(EmittedDecisions) = 2
  /\ \A d \in EmittedDecisions : d.decision_type = "BRAND_CONFLICT" /\ ~d.resolved

(***************************************************************************)
(* The functions that compute a variance percentage against a baseline.    *)
(***************************************************************************)
VarianceAmounts == {0, Cents(1), Cents(9200), Cents(10000), -Cents(10000)}

CallGetVariancePercent ==
  /\ op = "idle"
  /\ UNCHANGED project
  /\ \E amount1 \in VarianceAmounts, amount2 \in VarianceAmounts :
       /\ op' = "getVariancePercent"
       /\ args' = [amount1 |-> amount1, amount2 |-> amount2]
       /\ ret' = getVariancePercent(amount1, amount2)

NextVariance ==
  \/ CallGetVariancePercent
  \/ CallAuditWrapperForTaxTrap
  \/ CallDetectQuantityMismatches
  \/ Return

SpecVariance == Init /\ [][NextVariance]_vars

\* C16: a variance percentage against a zero baseline is 100: for
\* getVariancePercent when exactly one amount is 0, for auditWrapperForTaxTrap
\* when wrapperTotal is 0 and childrenSum is not, and for
\* detectQuantityMismatches when the takeoff quantity is 0 and the matched
\* line's quantity is not.
C16_ZeroBaselineIs100 ==
  /\ (op = "getVariancePercent" /\ (args.amount1 = 0) # (args.amount2 = 0))
       => ret = Whole(100)
  /\ (op = "auditWrapperForTaxTrap" /\ args.wrapperTotal = 0 /\ args.childrenSum # 0)
       => FracAbs(ret.variancePercent) = Whole(100)
  /\ op = "detectQuantityMismatches" =>
       \A k \in 1..Len(args.takeoffItems) :
         LET takeoff == args.takeoffItems[k]
             line    == findLineByScope(args.quoteLines, takeoff.scopeTag)
         IN  (takeoff.qty = 0 /\ line # None /\ Truthy(line[1].quantity)) =>
               \E m \in 1..Len(ret) :
                 /\ ret[m].scopeTag = takeoff.scopeTag
                 /\ ret[m].expectedQty = 0
                 /\ ret[m].variancePercent = Whole(100)

(***************************************************************************)
(* The rows of a project (tables quotes and gaps) and the project summary. *)
(* Of a row only the columns the summary engine reads are kept.            *)
(***************************************************************************)
\* most quotes and most gaps of a project
MaxProjectQuotes == 2

MaxProjectGaps == 2

\* wrapper flag and reconciliation rule of an inserted quote
InsertedQuoteKinds ==
  { [is_wrapper |-> TRUE,  rule |-> "AUTHORITATIVE"],
    [is_wrapper |-> FALSE, rule |-> "ADDITIVE"] }

\* the statuses a user gives a quote
QuoteStatuses == {"VERIFIED", "PENDING", "DECISION_REQUIRED"}

\* INSERT INTO quotes: the status is the column's default; the total of the
\* i-th quote is 2^i dollars and it may name an earlier quote as its parent
InsertQuote ==
  /\ op = "idle"
  /\ Len(project.quotes) < MaxProjectQuotes
  /\ \E kind \in InsertedQuoteKinds,
        parent \in Optional({project.quotes[j].id : j \in 1..Len(project.quotes)}) :
       LET i == Len(project.quotes) + 1
       IN  project' = [project EXCEPT !.quotes =
             Append(@, QuoteOf(<<"q", i>>, kind.is_wrapper, kind.rule, "PENDING",
                               parent, Some(Dollars(Pow2(i)))))]
  /\ UNCHANGED <<op, args, ret>>

\* UPDATE quotes SET status
SetQuoteStatus ==
  /\ op = "idle"
  /\ \E i \in 1..Len(project.quotes), status \in QuoteStatuses :
       /\ project.quotes[i].status # status
       /\ project' = [project EXCEPT !.quotes[i].status = status]
  /\ UNCHANGED <<op, args, ret>>

\* INSERT INTO gaps: resolved is the column's default; the estimates of the
\* i-th gap are 2^i, 3 * 2^i and 5 * 2^i dollars, or no mid estimate, or none
InsertGap ==
  /\ op = "idle"
  /\ Len(project.gaps) < MaxProjectGaps
  /\ \E estimated \in {"all", "range", "none"} :
       LET i == Len(project.gaps) + 1
       IN  project' = [project EXCEPT !.gaps =
             Append(@, [id |-> <<"g", i>>,
                        estimated_low  |-> IF estimated = "none" THEN None
                                           ELSE Some(Dollars(Pow2(i))),
                        estimated_mid  |-> IF estimated = "all"
                                           THEN Some(Dollars(3 * Pow2(i))) ELSE None,
                        estimated_high |-> IF estimated = "none" THEN None
                                           ELSE Some(Dollars(5 * Pow2(i))),
                        resolved |-> FALSE])]
  /\ UNCHANGED <<op, args, ret>>

\* UPDATE gaps SET resolved = true
ResolveGap ==
  /\ op = "idle"
  /\ \E i \in 1..Len(project.gaps) :
       /\ ~project.gaps[i].resolved
       /\ project' = [project EXCEPT !.gaps[i].resolved = TRUE]
  /\ UNCHANGED <<op, args, ret>>

\* the decisions of the project: none, or one resolved and one not
DecisionLists == { << >>, << [resolved |-> TRUE], [resolved |-> FALSE] >> }

CallGenerateProjectSummary ==
  /\ op = "idle"
  /\ UNCHANGED project
  /\ \E decisions \in DecisionLists :
       /\ op' = "generateProjectSummary"
       /\ args' = [quotes |-> project.quotes, gaps |-> project.gaps,
                   decisions |-> decisions]
       /\ ret' = generateProjectSummary(project.quotes, project.gaps, decisions)

NextProject ==
  \/ InsertQuote
  \/ SetQuoteStatus
  \/ InsertGap
  \/ ResolveGap
  \/ CallGenerateProjectSummary
  \/ Return

SpecProject == Init /\ [][NextProject]_vars

(***************************************************************************)
(* Properties of the project summary.                                      *)
(***************************************************************************)
\* the sum of the numbers f[i] for i in P
RECURSIVE SumAt(_, _)
SumAt(f, P) ==
  IF P = {} THEN 0
  ELSE LET i == CHOOSE i \in P : TRUE
       IN  f[i] + SumAt(f, P \ {i})

\* an absent estimate counts as 0
EstimateOrZero(estimate) == IF estimate = None THEN 0 ELSE estimate[1]

\* the positions of the gaps that are not marked resolved
OpenGaps(gaps) == {i \in 1..Len(gaps) : gaps[i].resolved = FALSE}

\* C21: whatever gaps were created and resolved so far, generateProjectSummary
\* reports as estimatedCost the sums of estimated_low, estimated_mid and
\* estimated_high (null as 0) over exactly the gaps with resolved = false and
\* as gapCount the number of those gaps; marking one more gap resolved lowers
\* low, mid and high by that gap's estimates and gapCount by one and changes
\* neither verifiedCost nor pendingCost.
C21_ResolvedGapsContributeNothing ==
  op = "generateProjectSummary" =>
    LET gaps == args.gaps
        open == OpenGaps(gaps)
        low  == [i \in 1..Len(gaps) |-> EstimateOrZero(gaps[i].estimated_low)]
        mid  == [i \in 1..Len(gaps) |-> EstimateOrZero(gaps[i].estimated_mid)]
        high == [i \in 1..Len(gaps) |-> EstimateOrZero(gaps[i].estimated_high)]
    IN  /\ ret.estimatedCost = [low  |-> SumAt(low, open),
                                mid  |-> SumAt(mid, open),
                                high |-> SumAt(high, open)]
        /\ ret.gapCount = Cardinality(open)
        /\ \A i \in open :
             LET after == generateProjectSummary(
                            args.quotes, [gaps EXCEPT ![i].resolved = TRUE],
                            args.decisions)
             IN  /\ after.estimatedCost = [low  |-> ret.estimatedCost.low - low[i],
                                           mid  |-> ret.estimatedCost.mid - mid[i],
                                           high |-> ret.estimatedCost.high - high[i]]
                 /\ after.gapCount = ret.gapCount - 1
                 /\ after.verifiedCost = ret.verifiedCost
                 /\ after.pendingCost = ret.pendingCost

\* a summary of a project with a resolved gap and an open gap, both with
\* estimates, a VERIFIED quote and a PENDING quote
C21_Witness ==
  /\ op = "generateProjectSummary"
  /\ Len(args.gaps) = 2
  /\ args.gaps[1].resolved /\ args.gaps[1].estimated_mid # None
  /\ ~args.gaps[2].resolved /\ args.gaps[2].estimated_mid # None
  /\ ret.estimatedCost = [low |-> Dollars(4), mid |-> Dollars(12), high |-> Dollars(20)]
  /\ ret.gapCount = 1
  /\ ret.verifiedCost > 0
  /\ ret.pendingCost > 0

(***************************************************************************)
(* The match classification of the dedupe engine: compareLineToQuote.      *)
(***************************************************************************)
\* amounts at, just inside and just outside the limits of the classification
MatchLineAmounts == {None, Some(0), Some(Cents(100)), Some(-Cents(100))}

MatchTotals ==
  {None, Some(0), Some(Cents(100) + 1), Some(Cents(107)), Some(Cents(109)),
   Some(Cents(200)), Some(-Cents(95)), Some(-Cents(100))}

MatchSubtotals ==
  {None, Some(Cents(100)), Some(Cents(101)), Some(Cents(92)), Some(Cents(92) - 1),
   Some(Cents(50)), Some(-Cents(200))}

CallCompareLineToQuote ==
  /\ op = "idle"
  /\ UNCHANGED project
  /\ \E raw \in {None, Some(<<"A">>)}, vendor \in {<<"A">>, <<"a", "b">>},
        amount \in MatchLineAmounts, subtotal \in MatchSubtotals,
        total \in MatchTotals :
       \E ids \in {ids \in IdScenarios : ids.parent = "q1"} :
         LET parentLine  == LineOf(ids, amount)
             parentQuote == ParentQuoteOf(ids, raw, None)
             childQuote  == ChildQuoteOf(ids, vendor, None, subtotal, total)
         IN  /\ op' = "compareLineToQuote"
             /\ args' = [parentLine |-> parentLine, parentQuote |-> parentQuote,
                         childQuote |-> childQuote]
             /\ ret' = compareLineToQuote(parentLine, parentQuote, childQuote)

NextMatch == CallCompareLineToQuote \/ Return

SpecMatch == Init /\ [][NextMatch]_vars

(***************************************************************************)
(* Properties of the match classification.                                 *)
(***************************************************************************)
\* the two amounts differ by less than 0.01
WithinACent(a, b) == Abs(a - b) < Cents(1)

\* |a - b| / max(a, b) * 100 <= 8, the variance of two amounts of which
\* exactly one is 0 being 100
VarianceAtMost8(a, b) ==
  /\ a # 0 /\ b # 0
  /\ LET larger == IF a > b THEN a ELSE b
     IN  larger < 0 \/ Abs(a - b) * 100 <= 8 * larger

TaggedTaxTrap(details) ==
  Len(details) = 4 /\ details[1] = "TAX TRAP: Line matches subtotal"

\* C22: compareLineToQuote returns EXACT, with variancePercent 0, iff the line
\* amount is within 0.01 of the child's total or subtotal (null as 0), its
\* evidenceDetails being tagged TAX TRAP exactly when checkTaxTrap reports a
\* tax trap; otherwise SOFT iff the smaller of the variances from total and
\* from subtotal is at most 8%; otherwise NO_MATCH.  The confidence is 95, 50,
\* 75, 25 and 0 as the type and the text evidence say, and NO_MATCH reports
\* no text evidence.
C22_MatchClassification ==
  op = "compareLineToQuote" =>
    LET line     == EstimateOrZero(args.parentLine.amount)
        total    == EstimateOrZero(args.childQuote.total)
        subtotal == EstimateOrZero(args.childQuote.subtotal)
        exact    == WithinACent(line, total) \/ WithinACent(line, subtotal)
        soft     == ~exact /\ (VarianceAtMost8(line, total)
                               \/ VarianceAtMost8(line, subtotal))
        evidence == EvidenceInText(args.parentQuote, args.childQuote)
    IN  /\ ret.type = "EXACT" <=> exact
        /\ ret.type = "SOFT" <=> soft
        /\ ret.type = "NO_MATCH" <=> (~exact /\ ~soft)
        /\ ret.type = "EXACT" =>
             /\ ret.variancePercent = Whole(0)
             /\ TaggedTaxTrap(ret.evidenceDetails)
                  <=> checkTaxTrap(line, args.childQuote).isTaxTrap
        /\ ret.type # "NO_MATCH" => ret.hasTextEvidence = evidence
        /\ ret.type = "NO_MATCH" => ret.hasTextEvidence = FALSE
        /\ ret.confidence =
             (IF ret.type = "EXACT" THEN (IF evidence THEN 95 ELSE 50)
              ELSE IF ret.type = "SOFT" THEN (IF evidence THEN 75 ELSE 25)
              ELSE 0)

\* a SOFT match at exactly 8% from the subtotal with the total further off,
\* and with text evidence
C22_Witness ==
  /\ op = "compareLineToQuote"
  /\ args.parentLine.amount = Some(Cents(100))
  /\ args.childQuote.subtotal = Some(Cents(92))
  /\ args.childQuote.total = Some(Cents(109))
  /\ ret.type = "SOFT"
  /\ ret.variancePercent = Whole(8)
  /\ ret.confidence = 75

\* C23: compareLineToQuote returns SOFT iff the line amount is not an exact
\* match of the child's total or subtotal and isSoftMatch holds of the line
\* amount and the total or the subtotal, for positive, zero and negative
\* amounts; a SOFT result reports a variancePercent v with 0 < v <= 8; no
\* pair of amounts is both an exact match and a soft match.
C23_SoftAgreesWithIsSoftMatch ==
  op = "compareLineToQuote" =>
    LET line     == OrZero(args.parentLine.amount)
        total    == OrZero(args.childQuote.total)
        subtotal == OrZero(args.childQuote.subtotal)
        exact    == isExactMatch(line, total) \/ isExactMatch(line, subtotal)
    IN  /\ ret.type = "SOFT" <=>
             (~exact /\ (isSoftMatch(line, total) \/ isSoftMatch(line, subtotal)))
        /\ ret.type = "SOFT" =>
             /\ FracLt(Whole(0), ret.variancePercent)
             /\ FracLe(ret.variancePercent, Whole(SOFT_MATCH_VARIANCE_PERCENT))
        /\ ~(isExactMatch(line, total) /\ isSoftMatch(line, total))
        /\ ~(isExactMatch(line, subtotal) /\ isSoftMatch(line, subtotal))

(***************************************************************************)
(* What consolidateGaps keeps of a group of gaps.                          *)
(***************************************************************************)
\* the uppercased scope_tag of a gap, a gap without scope_tag having ''
UpperTag(gap) == ToUpperCase(IF gap.scope_tag = None THEN << >> ELSE gap.scope_tag[1])

\* the positions of the gaps that are the first of their uppercased scope_tag
FirstOfTag(gaps) ==
  SelectSeq([i \in 1..Len(gaps) |-> i],
            LAMBDA i : \A j \in 1..(i - 1) : UpperTag(gaps[j]) # UpperTag(gaps[i]))

\* C24: consolidateGaps returns one gap per distinct uppercased scope_tag of
\* its input, in order of first occurrence; the source of an output gap
\* contains the source of every input gap of its group; its estimated_high
\* is the largest estimated_high of the group; its estimated_low,
\* estimated_mid, estimated_high and rate_source are those of one and the same
\* input gap of the group.
C24_ConsolidatedGroups ==
  op = "consolidateGaps" =>
    LET gaps   == args.gaps
        firsts == FirstOfTag(gaps)
    IN  /\ Len(ret) = Len(firsts)
        /\ \A k \in 1..Len(firsts) :
             LET group == {i \in 1..Len(gaps) :
                             UpperTag(gaps[i]) = UpperTag(gaps[firsts[k]])}
                 highs == {gaps[i].estimated_high[1] :
                             i \in {i \in group : gaps[i].estimated_high # None}}
             IN  /\ ret[k].scope_tag = gaps[firsts[k]].scope_tag
                 /\ \A i \in group :
                      gaps[i].source # None =>
                        /\ ret[k].source # None
                        /\ OccursIn(gaps[i].source[1], ret[k].source[1])
                 /\ IF highs = {} THEN ret[k].estimated_high = None
                    ELSE /\ ret[k].estimated_high # None
                         /\ ret[k].estimated_high[1] \in highs
                         /\ \A h \in highs : h <= ret[k].estimated_high[1]
                 /\ \E i \in group :
                      /\ ret[k].estimated_low = gaps[i].estimated_low
                      /\ ret[k].estimated_mid = gaps[i].estimated_mid
                      /\ ret[k].estimated_high = gaps[i].estimated_high
                      /\ ret[k].rate_source = gaps[i].rate_source

(***************************************************************************)
(* The gaps of the dependency rules.                                       *)
(***************************************************************************)
\* whether the keyword occurs in the description of a line, in any case
InDescriptions(lines, keyword) ==
  \E i \in 1..Len(lines) :
    Includes(ToUpperCase(lines[i].description), ToUpperCase(keyword))

\* whether a trigger of the rule occurs in the lines and no requirement does
RuleApplies(dep, lines) ==
  /\ \E t \in 1..Len(dep.trigger) : InDescriptions(lines, dep.trigger[t])
  /\ \A r \in 1..Len(dep.requires) : ~InDescriptions(lines, dep.requires[r])

\* C25: scanDestructiveDependencies returns, for each rule of
\* SCOPE_DEPENDENCIES, exactly one gap if a trigger keyword of the rule occurs
\* in the line descriptions (in any case) and no required keyword does, and no
\* gap for the rule otherwise; the gap has the first trigger in upper case as
\* scope_tag, the default low, likely and high of the rule as estimates, the
\* source ref of the rule as rate_source and the source
\* 'Dependency Rule: <triggers> requires <requirements>'.
C25_DependencyGaps ==
  op = "scanDestructiveDependencies" =>
    LET applying == SelectSeq([r \in 1..Len(SCOPE_DEPENDENCIES) |-> r],
                              LAMBDA r : RuleApplies(SCOPE_DEPENDENCIES[r], args.lines))
    IN  /\ Len(ret) = Len(applying)
        /\ \A k \in 1..Len(applying) :
             LET dep == SCOPE_DEPENDENCIES[applying[k]]
             IN  /\ ret[k].scope_tag = Some(ToUpperCase(dep.trigger[1]))
                 /\ ret[k].estimated_low = Some(dep.defaultEstimate.low)
                 /\ ret[k].estimated_mid = Some(dep.defaultEstimate.likely)
                 /\ ret[k].estimated_high = Some(dep.defaultEstimate.high)
                 /\ ret[k].rate_source = Some(dep.defaultEstimate.ref)
                 /\ ret[k].source =
                      Some(<<"Dependency Rule: ">> \o Join(dep.trigger, <<"/">>)
                             \o <<" requires ">> \o Join(dep.requires, <<"/">>))

\* a cabinet line before a drywall line: the gaps of the two rules, in the
\* order of the rules
C25_Witness ==
  /\ op = "scanDestructiveDependencies"
  /\ Len(args.lines) = 2
  /\ args.lines[1].description = <<"C", "a", "b", "i", "n", "e", "t">>
  /\ args.lines[2].description = <<"D", "r", "y", "w", "a", "l", "l">>
  /\ Len(ret) = 2
  /\ ret[1].scope_tag = Some(<<"D", "R", "Y", "W", "A", "L", "L">>)
  /\ ret[2].scope_tag = Some(<<"C", "A", "B", "I", "N", "E", "T", "S">>)

(***************************************************************************)
(* Which lines scanForBrandConflicts reports.                              *)
(***************************************************************************)
\* the brands of a catalog that a text names, in any case
BrandsNamed(category, text) ==
  {category.brands[b] : b \in {b \in 1..Len(category.brands) :
                                 Includes(ToLowerCase(text), category.brands[b])}}

\* C26: scanForBrandConflicts returns a CRITICAL conflict for a category and
\* a quote line whenever the plan text names a brand of the catalog of the
\* category and the description of the line names a different brand of that
\* catalog, also when the line names the brand of the plan as well; it returns
\* nothing for a line that names only the brand of the plan; every conflict
\* has a quoteBrand different from its planBrand, both of the catalog of its
\* category.
C26_BrandConflicts ==
  op = "scanForBrandConflicts" =>
    /\ \A c \in 1..Len(BRAND_CATALOGS), i \in 1..Len(args.quoteLines) :
         LET category == BRAND_CATALOGS[c]
             line     == args.quoteLines[i]
             inPlan   == BrandsNamed(category, args.planText)
             inLine   == BrandsNamed(category, line.description)
             reported == \E k \in 1..Len(ret) :
                           /\ ret[k].category = category.category
                           /\ ret[k].quoteLineId = line.id
                           /\ ret[k].severity = "CRITICAL"
         IN  /\ (\E p \in inPlan, b \in inLine : b # p) => reported
             /\ (\A p \in inPlan, b \in inLine : b = p) => ~reported
    /\ \A k \in 1..Len(ret) :
         /\ ret[k].quoteBrand # ret[k].planBrand
         /\ \E c \in 1..Len(BRAND_CATALOGS) :
              /\ BRAND_CATALOGS[c].category = ret[k].category
              /\ \E p, b \in 1..Len(BRAND_CATALOGS[c].brands) :
                   /\ ret[k].planBrand = ToUpperCase(BRAND_CATALOGS[c].brands[p])
                   /\ ret[k].quoteBrand = ToUpperCase(BRAND_CATALOGS[c].brands[b])

(***************************************************************************)
(* Which takeoff items detectQuantityMismatches reports.                   *)
(***************************************************************************)
\* the lines with the scope_tag of a takeoff item, case apart
LinesOfScope(quoteLines, scopeTag) ==
  {i \in 1..Len(quoteLines) :
     /\ quoteLines[i].scope_tag # None
     /\ ToUpperCase(quoteLines[i].scope_tag[1]) = ToUpperCase(scopeTag)}

\* whether |quoted - expected| / expected * 100 exceeds percent, for an
\* expected quantity that is not negative; no number is exceeded by 0 / 0
VarianceExceeds(quoted, expected, percent) ==
  IF expected = 0 THEN quoted # 0
  ELSE (IF quoted < expected THEN expected - quoted ELSE quoted - expected) * 100
         > percent * expected

\* C27: detectQuantityMismatches reports, for each takeoff item that has a
\* quote line with the same scope_tag (case apart), a mismatch iff
\* |quoted - expected| / expected * 100 exceeds tolerancePercent, CRITICAL iff
\* it exceeds 25 and WARNING otherwise; a takeoff item without such a line is
\* not reported, and a line whose quantity is 0 is compared like any other.
\* The line compared is the first with the scope_tag; a line without a
\* quantity is not compared.
C27_QuantityMismatches ==
  op = "detectQuantityMismatches" =>
    LET lines    == args.quoteLines
        First(t) == CHOOSE i \in LinesOfScope(lines, t.scopeTag) :
                      \A j \in LinesOfScope(lines, t.scopeTag) : i <= j
        Reported(t) ==
          /\ LinesOfScope(lines, t.scopeTag) # {}
          /\ lines[First(t)].quantity # None
          /\ VarianceExceeds(lines[First(t)].quantity[1], t.qty, args.tolerancePercent)
        reported == SelectSeq(args.takeoffItems, Reported)
    IN  /\ Len(ret) = Len(reported)
        /\ \A k \in 1..Len(reported) :
             LET quoted == lines[First(reported[k])].quantity[1]
             IN  /\ ret[k].scopeTag = reported[k].scopeTag
                 /\ ret[k].expectedQty = reported[k].qty
                 /\ ret[k].quotedQty = quoted
                 /\ ret[k].severity =
                      IF VarianceExceeds(quoted, reported[k].qty, 25)
                      THEN "CRITICAL" ELSE "WARNING"

(***************************************************************************)
(* The children of a verified authoritative wrapper in the summary.        *)
(***************************************************************************)
\* whether a cost that is a sum of totals of distinct quotes of the project
\* contains the total of the i-th quote, which is 2^i dollars
CountsQuote(cost, i) == (cost \div Dollars(Pow2(i))) % 2 = 1

\* the positions of the quotes whose parent is a VERIFIED AUTHORITATIVE wrapper
CoveredChildren(quotes) ==
  {i \in 1..Len(quotes) :
     \E w \in 1..Len(quotes) :
       /\ quotes[i].parent_quote_id = Some(quotes[w].id)
       /\ quotes[w].is_wrapper
       /\ quotes[w].reconciliation_rule = "AUTHORITATIVE"
       /\ quotes[w].status = "VERIFIED"}

\* C28: after any sequence of status changes, generateProjectSummary counts
\* the total of a child of a VERIFIED AUTHORITATIVE wrapper neither in
\* verifiedCost nor in pendingCost, whatever the status of the child.
C28_CoveredChildNotCounted ==
  op = "generateProjectSummary" =>
    \A i \in CoveredChildren(args.quotes) :
      /\ ~CountsQuote(ret.verifiedCost, i)
      /\ ~CountsQuote(ret.pendingCost, i)

(***************************************************************************)
(* The wrapper policy in the summary engine and in the safety engine.      *)
(***************************************************************************)
\* status and total of a child of the wrapper; its reconciliation_rule is the
\* default of the column
WrapperChildKinds ==
  [status : QuoteStatuses, total : {None, Some(Dollars(250)), Some(Dollars(500))}]

WrapperLineLists == { << >>, LinesOf(<<Some(Dollars(500))>>) }

\* calculateVerifiedCost of a VERIFIED wrapper with its children, and
\* validateWrapperTruth of the same wrapper and children
CallWrapperCosts ==
  /\ op = "idle"
  /\ UNCHANGED project
  /\ \E rule \in ReconciliationRules, total \in WrapperTotals,
        wrapperLines \in WrapperLineLists, n \in 0..MaxChildren :
       \E kinds \in [1..n -> WrapperChildKinds] :
         LET wrapper     == QuoteOf("w", TRUE, rule, "VERIFIED", None, total)
             childQuotes == [i \in 1..n |->
                               QuoteOf(<<"c", i>>, FALSE, "ADDITIVE", kinds[i].status,
                                       Some("w"), kinds[i].total)]
         IN  /\ op' = "wrapperCosts"
             /\ args' = [wrapper |-> wrapper, childQuotes |-> childQuotes,
                         wrapperLines |-> wrapperLines]
             /\ ret' = [summary |-> calculateVerifiedCost(<<wrapper>> \o childQuotes),
                        safety |-> validateWrapperTruth(wrapper, childQuotes,
                                                        wrapperLines).verifiedCost]

NextWrapperCosts == CallWrapperCosts \/ Return

SpecWrapperCosts == Init /\ [][NextWrapperCosts]_vars

\* C29: for a VERIFIED wrapper W with non-wrapper children C of any status and
\* each reconciliation_rule of W, calculateVerifiedCost of the list of W and C
\* equals the verifiedCost of validateWrapperTruth(W, C, lines).
C29_WrapperCostsAgree ==
  op = "wrapperCosts" => ret.summary = ret.safety

(***************************************************************************)
(* The scope_tag of the gap of an excluded line.                           *)
(***************************************************************************)
\* the scope_tag the gap of an excluded line is to have: the last words
\* before the keyword, else the scope_tag of the line, else UNSPECIFIED
ExcludedScope(line) ==
  LET text    == ToUpperCase(line.description \o <<" ">>
                               \o (IF line.notes = None THEN << >> ELSE line.notes[1]))
      found   == {k \in 1..Len(EXCLUSION_KEYWORDS) : Includes(text, EXCLUSION_KEYWORDS[k])}
      keyword == EXCLUSION_KEYWORDS[CHOOSE k \in found : \A j \in found : k <= j]
      words   == scopeWords(SubSeq(text, 1, IndexOf(text, keyword) - 1))
  IN  IF found = {} THEN None
      ELSE IF words # << >> THEN Some(Join(LastTwo(words), <<" ">>))
      ELSE IF line.scope_tag # None /\ line.scope_tag # Some(<< >>) THEN line.scope_tag
      ELSE Some(<<"U", "N", "S", "P", "E", "C", "I", "F", "I", "E", "D">>)

\* C30: the gap scanQuoteForGaps raises for a line that contains an exclusion
\* keyword has as scope_tag the words extracted before the keyword when there
\* are any, the scope_tag of the line when there are none and the line has
\* one, and UNSPECIFIED only when neither is there.
C30_ExcludedLineScope ==
  op = "scanQuoteForGaps" =>
    \A i \in 1..Len(args.lines) :
      LET line == args.lines[i]
          IsGapOfLine(gap) == gap.description = <<"Excluded: ">> \o line.description
      IN  ExcludedScope(line) # None =>
            /\ \E k \in 1..Len(ret.gaps) : IsGapOfLine(ret.gaps[k])
            /\ \A k \in 1..Len(ret.gaps) :
                 IsGapOfLine(ret.gaps[k]) => ret.gaps[k].scope_tag = ExcludedScope(line)

(***************************************************************************)
(* The whole engine: a caller that may call any of the functions above.    *)
(***************************************************************************)
Next ==
  \/ NextDedupe
  \/ NextSafety
  \/ NextSummary
  \/ NextGaps
  \/ NextConflict
  \/ NextDecisions
  \/ NextVariance
  \/ NextProject
  \/ NextMatch
  \/ NextWrapperCosts

Spec == Init /\ [][Next]_vars

====
